---- MODULE Spec2Model ----
(***************************************************************************)
(* MedGuard: the risk composers of the basic processor                     *)
(* (process_data_script.py, MedGuardProcessor) and of the advanced         *)
(* processor (newer files/data_processing.py, AdvancedMedGuardProcessor),  *)
(* the SST anomaly transform, the MPA coverage statistic and the MPA       *)
(* expansion simulator (train_models_script.py, MPASimulator); the two     *)
(* pipelines with their exports, the training of the two models, the       *)
(* illegal-fishing detection, the current direction and the habitat        *)
(* suitability scores.                                                     *)
(*                                                                         *)
(* Numbers.  A float is modelled as an exact fraction <<n, d>> with d >= 0 *)
(* in lowest terms; d = 0 carries the IEEE specials the code can produce:  *)
(* <<0,0>> is NaN, <<1,0>> is +inf, <<-1,0>> is -inf.  Square roots and    *)
(* exponentials, which leave the rationals, are computed in fixed point.   *)
(* A gridded field is a function from the cells 1..NCells to such numbers; *)
(* a field with a time dimension is a sequence of fields.                  *)
(***************************************************************************)
EXTENDS Integers, Sequences, FiniteSets, TLC

VARIABLES
    raw_data,           \* MedGuardProcessor.raw_data: dataset key -> dataset
    processed_data,     \* MedGuardProcessor.processed_data: name -> derived output
    data,               \* AdvancedMedGuardProcessor.data: dataset key -> dataset
    processed,          \* AdvancedMedGuardProcessor.processed: name -> derived output
    summary_file,       \* data/processed/summary_statistics.csv as load_baseline finds it
    baseline_coverage,  \* MPASimulator.baseline_coverage
    scenarios,          \* MPASimulator.scenarios: key -> scenario record
    calls,              \* every simulate_expansion call made: inputs and returned record
    disk,               \* the input files under data/ and the outputs that cannot be written
    run,                \* how the last run_full_pipeline of each processor ended
    processed_dir,      \* data/processed: file name -> content
    output_dir,         \* the advanced processor's output directory: file name -> content
    models,             \* the OverfishingRiskModel and JuvenileCatchForecastModel objects
    training_data,      \* what each model's last prepare_training_data returned
    bundles,            \* the bundle each model's save_model last persisted
    risk_components,    \* the keys of risk_components in the last calculate_multifactor_risk_index
    field_attrs,        \* the attrs of each DataArray in AdvancedMedGuardProcessor.processed
    innovations_applied, \* AdvancedMedGuardProcessor.metadata['innovations_applied']
    predictions,        \* how each model's last predict_risk / forecast call ended
    dashboard,          \* MedGuardDashboard: what each widget rendered last
    models_dir          \* models/: the JSON files train_all_models writes

vars == <<raw_data, processed_data, data, processed,
          summary_file, baseline_coverage, scenarios, calls,
          disk, run, processed_dir, output_dir, models, training_data, bundles,
          risk_components, field_attrs, innovations_applied, predictions,
          dashboard, models_dir>>
pipeVars == <<disk, run, processed_dir, output_dir>>
trainVars == <<models, training_data, bundles>>
basicVars == <<raw_data, processed_data>>
advVars == <<data, processed>>
simVars == <<summary_file, baseline_coverage, scenarios, calls>>
stageVars == <<risk_components, field_attrs, innovations_applied>>
obsVars == <<stageVars, predictions, dashboard, models_dir>>

(***************************************************************************)
(* Bounds of the model.                                                    *)
(***************************************************************************)
NCells == 2
NTimes == 2
\* The stages stop being invoked once innovations_applied has this many tags.
MaxApplied == 2

Cells == 1..NCells
Times == 1..NTimes

(***************************************************************************)
(* Float arithmetic on fractions, with NaN and the infinities.             *)
(***************************************************************************)
AbsInt(n) == IF n < 0 THEN -n ELSE n
SignInt(n) == IF n < 0 THEN -1 ELSE IF n > 0 THEN 1 ELSE 0

RECURSIVE Gcd(_, _)
Gcd(a, b) == IF b = 0 THEN a ELSE Gcd(b, a % b)

\* The fraction n/d in lowest terms with a non-negative denominator.
Rat(n, d) ==
    IF d = 0 THEN <<SignInt(n), 0>>
    ELSE LET g == Gcd(AbsInt(n), AbsInt(d))
             s == IF d < 0 THEN -1 ELSE 1
         IN  <<(s * n) \div g, (s * d) \div g>>

NaN == <<0, 0>>
PosInf == <<1, 0>>
NegInf == <<-1, 0>>
Zero == <<0, 1>>
One == <<1, 1>>
IsNaN(q) == q[2] = 0 /\ q[1] = 0
IsFinite(q) == q[2] > 0

Neg(a) == <<-a[1], a[2]>>
FAbs(a) == <<AbsInt(a[1]), a[2]>>

\* a + b: inf + (-inf) and anything with NaN are NaN.
Add(a, b) ==
    IF IsNaN(a) \/ IsNaN(b) THEN NaN
    ELSE IF a[2] = 0 /\ b[2] = 0 THEN (IF a[1] = b[1] THEN a ELSE NaN)
    ELSE IF a[2] = 0 THEN a
    ELSE IF b[2] = 0 THEN b
    ELSE LET g == Gcd(a[2], b[2])
         IN  Rat(a[1] * (b[2] \div g) + b[1] * (a[2] \div g), (a[2] \div g) * b[2])

Sub(a, b) == Add(a, Neg(b))

\* a * b: 0 * inf and anything with NaN are NaN.
Mul(a, b) ==
    IF IsNaN(a) \/ IsNaN(b) THEN NaN
    ELSE IF a[2] = 0 \/ b[2] = 0 THEN <<SignInt(a[1]) * SignInt(b[1]), 0>>
    ELSE LET g == Gcd(AbsInt(a[1]), b[2])
             h == Gcd(AbsInt(b[1]), a[2])
         IN  Rat((a[1] \div g) * (b[1] \div h), (a[2] \div h) * (b[2] \div g))

\* a / b as numpy divides floats: x/0 is +-inf, 0/0 and inf/inf are NaN;
\* no exception is raised.
Div(a, b) ==
    IF IsNaN(a) \/ IsNaN(b) THEN NaN
    ELSE IF a[2] = 0 /\ b[2] = 0 THEN NaN
    ELSE IF a[2] = 0 THEN <<a[1] * (IF b[1] < 0 THEN -1 ELSE 1), 0>>
    ELSE IF b[2] = 0 THEN Zero
    ELSE IF b[1] = 0 THEN <<SignInt(a[1]), 0>>
    ELSE Mul(a, <<SignInt(b[1]) * b[2], AbsInt(b[1])>>)

\* a < b; every comparison with NaN is false.
Less(a, b) ==
    IF IsNaN(a) \/ IsNaN(b) THEN FALSE
    ELSE IF a[2] = 0 /\ b[2] = 0 THEN a[1] < b[1]
    ELSE IF a[2] = 0 THEN a[1] < 0
    ELSE IF b[2] = 0 THEN b[1] > 0
    ELSE LET g == Gcd(a[2], b[2])
         IN  a[1] * (b[2] \div g) < b[1] * (a[2] \div g)

Leq(a, b) == ~IsNaN(a) /\ ~IsNaN(b) /\ ~Less(b, a)

\* An array held in memory: the sequence f with every element computed.
Array(f) == SelectSeq(f, LAMBDA x : TRUE)

\* A Python dict: a function whose domain is the set of keys present.
EmptyDict == <<>>
Put(d, k, v) == [x \in (DOMAIN d) \cup {k} |-> IF x = k THEN v ELSE d[x]]
Has(d, k) == k \in DOMAIN d
Without(d, keys) == [x \in (DOMAIN d) \ keys |-> d[x]]

(***************************************************************************)
(* Reductions over a field, as xarray computes them (skipna).              *)
(***************************************************************************)
DefinedCells(f) == {c \in DOMAIN f : ~IsNaN(f[c])}

\* DataArray.min() / .max(): over the non-NaN cells, NaN when there is none.
FieldMin(f) ==
    IF DefinedCells(f) = {} THEN NaN
    ELSE LET c == CHOOSE c \in DefinedCells(f) :
                      \A e \in DefinedCells(f) : ~Less(f[e], f[c])
         IN  f[c]

FieldMax(f) ==
    IF DefinedCells(f) = {} THEN NaN
    ELSE LET c == CHOOSE c \in DefinedCells(f) :
                      \A e \in DefinedCells(f) : ~Less(f[c], f[e])
         IN  f[c]

\* The terms of seq added left to right, from `start`, as Python's sum() does.
RECURSIVE SumFrom(_, _, _)
SumFrom(seq, i, acc) ==
    IF i > Len(seq) THEN acc ELSE SumFrom(seq, i + 1, Add(acc, seq[i]))
SumSeq(seq) == SumFrom(seq, 1, Zero)

NotNaN(q) == ~IsNaN(q)

\* mean() with skipna: the mean of the non-NaN values, NaN when there is none.
MeanOf(seq) ==
    LET xs == SelectSeq(seq, NotNaN)
    IN  IF Len(xs) = 0 THEN NaN ELSE Div(SumSeq(xs), <<Len(xs), 1>>)

\* Floor of the square root of a natural number, by bisection on [lo, hi).
RECURSIVE ISqrtIn(_, _, _)
ISqrtIn(v, lo, hi) ==
    IF hi - lo <= 1 THEN lo
    ELSE LET mid == (lo + hi) \div 2
         IN  IF mid * mid <= v THEN ISqrtIn(v, mid, hi) ELSE ISqrtIn(v, lo, mid)
ISqrt(v) == ISqrtIn(v, 0, 46340)

\* np.sqrt in fixed point with SqrtScale steps per unit.  As for floats, the
\* root of a positive number is positive and the root of zero is zero.
SqrtScale == 1000
Sqrt(q) ==
    IF IsNaN(q) \/ q[1] < 0 THEN NaN
    ELSE IF q[2] = 0 THEN PosInf
    ELSE IF q[1] = 0 THEN Zero
    ELSE LET r == ISqrt((q[1] * SqrtScale * SqrtScale) \div q[2])
         IN  Rat(IF r = 0 THEN 1 ELSE r, SqrtScale)

\* std() with skipna and ddof = 0: the root of the mean squared deviation.
StdOf(seq) ==
    LET m == MeanOf(seq)
        d == Array([i \in 1..Len(seq) |-> Sub(seq[i], m)])
        dev == [i \in 1..Len(seq) |-> Mul(d[i], d[i])]
    IN  Sqrt(MeanOf(dev))

\* Normalization that divides by the range without subtracting the minimum.
NormalizeNoShift(f) ==
    LET lo == FieldMin(f)
        hi == FieldMax(f)
    IN  IF Less(lo, hi)
        THEN Array([c \in DOMAIN f |-> Div(f[c], Sub(hi, lo))])
        ELSE Array([c \in DOMAIN f |-> Mul(f[c], Zero)])

\* Normalization without the max > min test: a constant field divides by zero.
NormalizeNoGuard(f) ==
    LET lo == FieldMin(f)
        hi == FieldMax(f)
    IN  Array([c \in DOMAIN f |-> Div(Sub(f[c], lo), Sub(hi, lo))])

(***************************************************************************)
(* The risk composers.                                                     *)
(***************************************************************************)
\* Min-max normalisation of one risk component (both composers).
Normalize(f) ==
    LET lo == FieldMin(f)
        hi == FieldMax(f)
    IN  IF Less(lo, hi)
        THEN Array([c \in DOMAIN f |-> Div(Sub(f[c], lo), Sub(hi, lo))])
        ELSE Array([c \in DOMAIN f |-> Mul(f[c], Zero)])

\* The weights of the basic composer.
BasicWeights == [sst |-> <<3, 10>>, productivity |-> <<2, 5>>, frontal |-> <<3, 10>>]
BasicOrder == <<"sst", "productivity", "frontal">>

\* xr.where(chl_trend < 0, -chl_trend, 0)
ChlRisk(trend) ==
    Array([c \in DOMAIN trend |-> IF Less(trend[c], Zero) THEN Neg(trend[c]) ELSE Zero])

\* risk_components of calculate_overfishing_risk_index.
BasicRiskComponents(pd) ==
    LET a == IF Has(pd, "sst_standardized")
             THEN Put(EmptyDict, "sst",
                      LET s == pd["sst_standardized"]
                      IN  Array([c \in DOMAIN s[Len(s)] |-> FAbs(s[Len(s)][c])]))
             ELSE EmptyDict
        b == IF Has(pd, "chl_trend")
             THEN Put(a, "productivity", ChlRisk(pd["chl_trend"]))
             ELSE a
    IN  IF Has(pd, "frontal_zones")
        THEN Put(b, "frontal",
                 Array([c \in DOMAIN pd["frontal_zones"] |->
                           IF pd["frontal_zones"][c] THEN One ELSE Zero]))
        ELSE b

\* The keys of `order` that are keys of d, in order: a dict's iteration order.
KeysOf(d, order) == SelectSeq(order, LAMBDA k : k \in DOMAIN d)

\* The weighted sum divided by the sum of the weights of the components present.
BasicRiskIndex(comps) ==
    LET keys == KeysOf(comps, BasicOrder)
        total == SumSeq([i \in 1..Len(keys) |-> BasicWeights[keys[i]]])
        normalized_risks == Array([i \in 1..Len(keys) |-> Normalize(comps[keys[i]])])
    IN  Array([c \in Cells |->
            Div(SumSeq([i \in 1..Len(keys) |->
                          Mul(normalized_risks[i][c], BasicWeights[keys[i]])]),
                total)])

LowThreshold == <<3, 10>>
HighThreshold == <<3, 5>>

\* xr.where(risk < 0.3, 'low', xr.where(risk < 0.6, 'medium', 'high'))
BasicRiskClass(r) ==
    IF Less(r, LowThreshold) THEN "low"
    ELSE IF Less(r, HighThreshold) THEN "medium" ELSE "high"

\* MedGuardProcessor.calculate_overfishing_risk_index
CalculateOverfishingRiskIndex ==
    LET comps == BasicRiskComponents(processed_data)
    IN  /\ IF DOMAIN comps # {}
           THEN LET risk == BasicRiskIndex(comps)
                IN  processed_data' =
                        Put(Put(processed_data, "overfishing_risk_index", risk),
                            "overfishing_risk_class",
                            [c \in Cells |-> BasicRiskClass(risk[c])])
           ELSE UNCHANGED processed_data
        /\ UNCHANGED <<raw_data, advVars, simVars, pipeVars, trainVars, obsVars>>

(***************************************************************************)
(* A gridded dataset with a time dimension: [months, values], months[t]    *)
(* the calendar month of time step t ('time.month'), values[t] the field   *)
(* at time step t.                                                         *)
(***************************************************************************)
\* The time steps of the same calendar month as t: one groupby('time.month') group.
MonthGroup(ds, t) ==
    SelectSeq([i \in 1..Len(ds.months) |-> i], LAMBDA i : ds.months[i] = ds.months[t])

\* x.groupby('time.month').mean('time'), read at the month of time step t.
ClimAt(ds, t, c) ==
    LET g == MonthGroup(ds, t)
    IN  MeanOf([j \in 1..Len(g) |-> ds.values[g[j]][c]])

\* x.groupby('time.month').std('time'), read at the month of time step t.
StdAt(ds, t, c) ==
    LET g == MonthGroup(ds, t)
    IN  StdOf([j \in 1..Len(g) |-> ds.values[g[j]][c]])

\* x.groupby('time.month') - climatology
Anomaly(ds) ==
    Array([t \in 1..Len(ds.values) |->
        Array([c \in DOMAIN ds.values[t] |-> Sub(ds.values[t][c], ClimAt(ds, t, c))])])

\* (x.groupby('time.month') - climatology) / std: the division is unguarded.
Standardized(ds) ==
    Array([t \in 1..Len(ds.values) |->
        Array([c \in DOMAIN ds.values[t] |->
            Div(Sub(ds.values[t][c], ClimAt(ds, t, c)), StdAt(ds, t, c))])])

Climatology(ds) ==
    [m \in {ds.months[t] : t \in 1..Len(ds.months)} |->
        LET t == CHOOSE t \in 1..Len(ds.months) : ds.months[t] = m
        IN  [c \in DOMAIN ds.values[t] |-> ClimAt(ds, t, c)]]

\* MedGuardProcessor.calculate_sst_anomaly
CalculateSstAnomaly ==
    /\ IF Has(raw_data, "sst")
       THEN processed_data' =
                Put(Put(Put(processed_data, "sst_anomaly", Anomaly(raw_data["sst"])),
                        "sst_standardized", Standardized(raw_data["sst"])),
                    "sst_climatology", Climatology(raw_data["sst"]))
       ELSE UNCHANGED processed_data
    /\ UNCHANGED <<raw_data, advVars, simVars, pipeVars, trainVars, obsVars>>

(***************************************************************************)
(* The depth dimension.  A dataset that carries one is a record with the   *)
(* depth coordinate (metres) and one time series per depth level instead   *)
(* of `values`; isel(depth=i) gives the dataset of level i.                *)
(***************************************************************************)
HasDepth(ds) == "depth" \in DOMAIN ds

TargetDepth == 5
\* np.argmin(np.abs(depth_vals - 5)): the first index of the smallest distance.
NearestSurfaceIdx(depth_vals) ==
    CHOOSE i \in DOMAIN depth_vals :
        /\ \A j \in DOMAIN depth_vals :
              AbsInt(depth_vals[i] - TargetDepth) <= AbsInt(depth_vals[j] - TargetDepth)
        /\ \A j \in 1..(i - 1) :
              AbsInt(depth_vals[i] - TargetDepth) < AbsInt(depth_vals[j] - TargetDepth)

\* DataArray.isel(depth=idx), idx counted from 1 here.
IselDepth(ds, idx) ==
    [k \in ((DOMAIN ds) \ {"depth", "levels"}) \cup {"values"} |->
        IF k = "values" THEN ds.levels[idx] ELSE ds[k]]

\* if 'depth' in temp.dims: temp = temp.isel(depth=np.argmin(np.abs(depth_vals - 5)))
NearestSurface(ds) ==
    IF HasDepth(ds) THEN IselDepth(ds, NearestSurfaceIdx(ds.depth)) ELSE ds

\* if 'depth' in temp.dims: temp = temp.isel(depth=0)
FirstLevel(ds) == IF HasDepth(ds) THEN IselDepth(ds, 1) ELSE ds

\* All cells of all time steps of a time series, as one sequence.
Flatten(series) ==
    Array([k \in 1..(Len(series) * NCells) |->
        series[((k - 1) \div NCells) + 1][((k - 1) % NCells) + 1]])

\* env_stress of calculate_multifactor_risk_index: the anomaly standardised by
\* the mean and the standard deviation of the whole anomaly field, its
\* absolute value at the last time step.
EnvStress(ds) ==
    LET anom == Anomaly(ds)
        m == MeanOf(Flatten(anom))
        sd == StdOf(Flatten(anom))
        last == anom[Len(anom)]
    IN  Array([c \in DOMAIN last |-> FAbs(Div(Sub(last[c], m), sd))])

\* The weights calculate_multifactor_risk_index registers, in insertion order.
AdvWeightValue ==
    [environmental_stress |-> <<1, 5>>, fishing_pressure |-> <<3, 10>>,
     habitat_degradation |-> <<1, 5>>, connectivity_disruption |-> <<3, 20>>,
     protection_gap |-> <<3, 20>>]
AdvOrder == <<"environmental_stress", "fishing_pressure", "habitat_degradation",
              "connectivity_disruption", "protection_gap">>

\* The keys of `weights` after the five 'if' blocks.
AdvWeightKeys(d, p) ==
    (IF Has(d, "sst") THEN {"environmental_stress"} ELSE {})
    \cup (IF Has(d, "fishing") THEN {"fishing_pressure"} ELSE {})
    \cup (IF Has(p, "habitat_quality_index") THEN {"habitat_degradation"} ELSE {})
    \cup (IF Has(p, "larval_connectivity") THEN {"connectivity_disruption"} ELSE {})
    \cup (IF Has(d, "mpa") THEN {"protection_gap"} ELSE {})

\* risk_components after the five 'if' blocks: fishing and mpa add no field.
AdvRiskComponents(d, p) ==
    LET a == IF Has(d, "sst")
             THEN Put(EmptyDict, "environmental_stress", EnvStress(FirstLevel(d["sst"])))
             ELSE EmptyDict
        b == IF Has(p, "habitat_quality_index")
             THEN Put(a, "habitat_degradation",
                      Array([c \in Cells |-> Sub(One, p["habitat_quality_index"][c])]))
             ELSE a
    IN  IF Has(p, "larval_connectivity")
        THEN Put(b, "connectivity_disruption",
                 LET conn == p["larval_connectivity"]
                     top == FieldMax(conn)
                 IN  Array([c \in Cells |-> Sub(One, Div(conn[c], top))]))
        ELSE b

\* total_weight = sum(weights.values())
AdvTotalWeight(wkeys) ==
    LET keys == SelectSeq(AdvOrder, LAMBDA k : k \in wkeys)
    IN  SumSeq([i \in 1..Len(keys) |-> AdvWeightValue[keys[i]]])

\* sum(normalized[key] * weights[key] / total_weight for key in normalized)
AdvRiskIndex(comps, wkeys) ==
    LET keys == KeysOf(comps, AdvOrder)
        total == AdvTotalWeight(wkeys)
        normalized_components == Array([i \in 1..Len(keys) |-> Normalize(comps[keys[i]])])
    IN  Array([c \in Cells |->
            SumSeq([i \in 1..Len(keys) |->
                      Div(Mul(normalized_components[i][c], AdvWeightValue[keys[i]]),
                          total)])])

\* xr.where(risk < 0.3, 1, xr.where(risk < 0.6, 2, 3))
AdvRiskClass(r) ==
    IF Less(r, LowThreshold) THEN 1
    ELSE IF Less(r, HighThreshold) THEN 2 ELSE 3

\* AdvancedMedGuardProcessor.calculate_multifactor_risk_index
CalculateMultifactorRiskIndex ==
    LET comps == AdvRiskComponents(data, processed)
    IN  /\ IF DOMAIN comps # {}
           THEN LET risk == AdvRiskIndex(comps, AdvWeightKeys(data, processed))
                IN  processed' =
                        Put(Put(processed, "overfishing_risk_index", risk),
                            "risk_classification",
                            [c \in Cells |-> AdvRiskClass(risk[c])])
           ELSE UNCHANGED processed
        /\ risk_components' = DOMAIN comps
        /\ field_attrs' = IF DOMAIN comps # {}
                          THEN Without(field_attrs,
                                       {"overfishing_risk_index", "risk_classification"})
                          ELSE field_attrs
        /\ UNCHANGED <<data, basicVars, simVars, pipeVars, trainVars,
                       innovations_applied, predictions, dashboard, models_dir>>

(***************************************************************************)
(* MedGuardProcessor.calculate_mpa_coverage.  An MPA dataset is            *)
(* [crs, areas]: whether the geometries carry a coordinate reference       *)
(* system, and each polygon's area after projection to EPSG:3857, here in  *)
(* hectares (10^4 m2) so that the totals fit the model's integers.         *)
(***************************************************************************)
MedTotalAreaKm2 == 2500000
HectaresPerKm2 == 100

\* mpa.to_crs(epsg=3857).area.sum() / 1e6: the summed area in km2.
MpaAreaKm2(mpa) ==
    Div(SumSeq([i \in 1..Len(mpa.areas) |-> <<mpa.areas[i], 1>>]), <<HectaresPerKm2, 1>>)

\* The coverage left as a fraction, without the factor 100.
CoverageFraction(mpa_area) == Div(mpa_area, <<MedTotalAreaKm2, 1>>)

\* (mpa_area / med_total_area) * 100
CoveragePct(mpa_area) == Mul(Div(mpa_area, <<MedTotalAreaKm2, 1>>), <<100, 1>>)

\* to_crs raises on geometries without a CRS; the handler catches and prints.
CalculateMpaCoverage ==
    /\ IF Has(raw_data, "mpa") /\ raw_data["mpa"].crs
       THEN LET mpa_area == MpaAreaKm2(raw_data["mpa"])
            IN  processed_data' =
                    Put(processed_data, "mpa_stats",
                        [total_mpa_area_km2 |-> mpa_area,
                         coverage_percentage |-> CoveragePct(mpa_area),
                         number_of_mpas |-> Len(raw_data["mpa"].areas)])
       ELSE UNCHANGED processed_data
    /\ UNCHANGED <<raw_data, advVars, simVars, pipeVars, trainVars, obsVars>>

(***************************************************************************)
(* MPASimulator.  Stock levels are fixed-point numbers with FixScale steps *)
(* per unit; exponents are in steps of 1/ExpScale.                         *)
(***************************************************************************)
None == <<>>

FixScale == 10000
ExpScale == 10000
TaylorTerms == 8

\* The sum of the terms x^k / k! of e^(x/8) from the k-th on, in fixed
\* point; term is the (k-1)-th term.
RECURSIVE TaylorFrom(_, _, _, _)
TaylorFrom(x, k, term, acc) ==
    IF k > TaylorTerms THEN acc + term
    ELSE TaylorFrom(x, k + 1, (term * x) \div (8 * ExpScale * k), acc + term)

FixSquare(v) == (v * v) \div FixScale

\* np.exp(-x / ExpScale) in fixed point, for 0 <= x <= 3.8 * ExpScale:
\* e^(x/8) by its series, squared twice to e^(x/2), inverted and squared.
ExpNeg(x) ==
    FixSquare((FixScale * FixScale) \div FixSquare(FixSquare(TaylorFrom(x, 1, FixScale, 0))))

\* An initial stock that continues from earlier scenarios instead of 0.6.
StockCarriedOver == IF scenarios = EmptyDict THEN 6000 ELSE 6100

CarryingCapacity == 15000
InitialStock == 6000
BaseRecoveryRate == 700
BiodiversityRateTenths == 8
SpilloverUsdPerStep == 30
DefaultYears == 10

\* A recovery rate that falls as the expansion grows.
RecoveryRateOfRemainder(pct) == (BaseRecoveryRate * (50 - pct)) \div 10

\* r = base_recovery_rate * (expansion_pct / 10), in steps of 1/ExpScale.
RecoveryRate(pct) == (BaseRecoveryRate * pct) \div 10

\* K / (1 + ((K - initial_stock) / initial_stock) * exp(-x))
Logistic(x) ==
    LET ratio == ((CarryingCapacity - InitialStock) * FixScale) \div InitialStock
        denom == FixScale + (ratio * ExpNeg(x)) \div FixScale
    IN  (CarryingCapacity * FixScale) \div denom

\* Biodiversity recovering at the full rate r.
BiodiversityAtFullRate(pct, t) == Logistic(RecoveryRate(pct) * t)

StockRecovery(pct, t) == Logistic(RecoveryRate(pct) * t)
BiodiversityRecovery(pct, t) ==
    Logistic((RecoveryRate(pct) * BiodiversityRateTenths * t) \div 10)

\* stock_recovery * spillover_multiplier * expansion_pct * 1e6, in USD.
EconomicBenefit(pct, t) == StockRecovery(pct, t) * SpilloverUsdPerStep * pct

\* A key that leaves the percentage out.
ScenarioKeyFixed(pct) == "expansion_pct"

\* f'expansion_{expansion_pct}pct'
ScenarioKey(pct) == "expansion_" \o ToString(pct) \o "pct"

\* The scenario record simulate_expansion builds; position t + 1 holds year t.
Scenario(pct, baseline, years) ==
    [expansion_percentage |-> pct,
     new_coverage |-> Add(baseline, <<pct, 1>>),
     years |-> Array([i \in 1..(years + 1) |-> i - 1]),
     stock_recovery |-> Array([i \in 1..(years + 1) |-> StockRecovery(pct, i - 1)]),
     biodiversity_recovery |-> Array([i \in 1..(years + 1) |-> BiodiversityRecovery(pct, i - 1)]),
     economic_benefit_usd |-> Array([i \in 1..(years + 1) |-> EconomicBenefit(pct, i - 1)]),
     final_stock_level |-> StockRecovery(pct, years),
     final_biodiversity |-> BiodiversityRecovery(pct, years)]

\* MPASimulator.load_baseline
\* baseline_coverage after load_baseline: 5.0 without the file or its
\* mpa_stats column, the stored coverage_percentage, 0 when the statistics
\* lack that key; ast.literal_eval raises on anything else and the
\* attribute keeps the value it had.
LoadedBaseline(summary, before) ==
    CASE summary.kind \in {"absent", "no_column"} -> <<5, 1>>
      [] summary.kind = "stats" -> summary.coverage
      [] summary.kind = "stats_no_key" -> Zero
      [] OTHER -> before

LoadBaseline ==
    /\ baseline_coverage' = LoadedBaseline(summary_file, baseline_coverage)
    /\ UNCHANGED <<summary_file, scenarios, calls, basicVars, advVars, pipeVars, trainVars, obsVars>>


\* simulate_expansion falling back to the default estimate when no baseline
\* was loaded.
SimulatedFromDefault(baseline, state, pct, years) ==
    LET used == IF baseline = None THEN <<5, 1>> ELSE baseline
        scenario == Scenario(pct, used, years)
    IN  <<Put(state[1], ScenarioKey(pct), scenario),
          state[2] \cup {[pct |-> pct, baseline |-> used,
                          years |-> years, fresh |-> state[1] = EmptyDict,
                          returned |-> scenario]}>>

\* One call's effect on <<scenarios, calls>>.  With no baseline loaded,
\* None + expansion_pct raises before anything is stored.  calls is the
\* history of the calls that returned: their inputs, whether scenarios was
\* still empty when they were made, and the record they returned.
Simulated(baseline, state, pct, years) ==
    IF baseline = None THEN state
    ELSE LET scenario == Scenario(pct, baseline, years)
         IN  <<Put(state[1], ScenarioKey(pct), scenario),
               state[2] \cup {[pct |-> pct, baseline |-> baseline,
                               years |-> years, fresh |-> state[1] = EmptyDict,
                               returned |-> scenario]}>>

\* MPASimulator.simulate_expansion
SimulateExpansion(pct, years) ==
    /\ LET after == Simulated(baseline_coverage, <<scenarios, calls>>, pct, years)
       IN  scenarios' = after[1] /\ calls' = after[2]
    /\ UNCHANGED <<summary_file, baseline_coverage, basicVars, advVars, pipeVars, trainVars, obsVars>>

ComparedPcts == <<10, 20, 30, 50>>

RECURSIVE SimulatedAll(_, _, _, _)
SimulatedAll(baseline, state, pcts, i) ==
    IF i > Len(pcts) THEN state
    ELSE SimulatedAll(baseline, Simulated(baseline, state, pcts[i], DefaultYears), pcts, i + 1)

\* MPASimulator.compare_scenarios: one simulate_expansion per percentage.
CompareScenarios ==
    /\ LET after == SimulatedAll(baseline_coverage, <<scenarios, calls>>, ComparedPcts, 1)
       IN  scenarios' = after[1] /\ calls' = after[2]
    /\ UNCHANGED <<summary_file, baseline_coverage, basicVars, advVars, pipeVars, trainVars, obsVars>>

(***************************************************************************)
(* The pipelines.  Here a dataset is only its form: "ok", or "malformed"   *)
(* when it loads but lacks the variable or column the stages read; an      *)
(* input file may also be "unreadable".  A derived output is only its      *)
(* type: "field" (DataArray), "stats" (dict) or "table" (DataFrame).       *)
(***************************************************************************)
RECURSIVE PutAll(_, _, _)
PutAll(d, keys, v) ==
    IF keys = <<>> THEN d ELSE PutAll(Put(d, Head(keys), v), Tail(keys), v)

IsOk(d, k) == Has(d, k) /\ d[k] = "ok"

\* The file names of load_copernicus_data and load_emodnet_data, by key.
CopernicusOrder == <<"sst", "currents", "chlorophyll", "salinity", "ssh">>
EmodnetOrder == <<"fishing", "mpa", "habitats">>

\* MedGuardProcessor.load_copernicus_data and load_emodnet_data: a file that
\* is missing or cannot be opened leaves no entry in raw_data.
RECURSIVE LoadFiles(_, _, _)
LoadFiles(raw, files, keys) ==
    IF keys = <<>> THEN raw
    ELSE LET k == Head(keys)
         IN  LoadFiles(IF Has(files, k) /\ files[k] # "unreadable"
                       THEN Put(raw, k, files[k]) ELSE raw,
                       files, Tail(keys))

\* The stages of the basic processor as run_full_pipeline calls them: each
\* returns processed_data after the stage.  An exception inside a stage is
\* caught by the stage, which then stores nothing.
SstAnomalyStage(raw, pd) ==
    IF IsOk(raw, "sst")
    THEN PutAll(pd, <<"sst_anomaly", "sst_standardized", "sst_climatology">>, "field")
    ELSE pd

CurrentSpeedStage(raw, pd) ==
    IF IsOk(raw, "currents")
    THEN PutAll(pd, <<"current_speed", "current_direction">>, "field")
    ELSE pd

ProductivityStage(raw, pd) ==
    IF IsOk(raw, "chlorophyll")
    THEN PutAll(pd, <<"chl_trend", "chl_mean", "productivity_class">>, "field")
    ELSE pd

FrontalZonesStage(raw, pd) ==
    IF IsOk(raw, "sst")
    THEN PutAll(pd, <<"sst_gradient", "frontal_zones">>, "field")
    ELSE pd

FishingPressureStage(raw, pd) ==
    IF IsOk(raw, "fishing") THEN Put(pd, "fishing_summary", "stats") ELSE pd

MpaCoverageStage(raw, pd) ==
    IF IsOk(raw, "mpa") THEN Put(pd, "mpa_stats", "stats") ELSE pd

RiskIndexStage(raw, pd) ==
    IF \E k \in {"sst_standardized", "chl_trend", "frontal_zones"} : Has(pd, k)
    THEN PutAll(pd, <<"overfishing_risk_index", "overfishing_risk_class">>, "field")
    ELSE pd

\* identify_juvenile_habitat_zones: one try block around the whole stage, so
\* a malformed chlorophyll dataset loses the temperature score as well.
JuvenileHabitatStage(raw, pd) ==
    IF IsOk(raw, "sst") /\ (Has(raw, "chlorophyll") => IsOk(raw, "chlorophyll"))
    THEN PutAll(pd, <<"juvenile_habitat_score", "juvenile_habitat_class">>, "field")
    ELSE pd

\* processed_data after the stages of MedGuardProcessor.run_full_pipeline.
BasicStages(raw, before) ==
    JuvenileHabitatStage(raw,
      RiskIndexStage(raw,
        MpaCoverageStage(raw,
          FishingPressureStage(raw,
            FrontalZonesStage(raw,
              ProductivityStage(raw,
                CurrentSpeedStage(raw,
                  SstAnomalyStage(raw, before))))))))

\* The order in which the stages insert their keys into processed_data.
BasicOutputOrder ==
    <<"sst_anomaly", "sst_standardized", "sst_climatology",
      "current_speed", "current_direction",
      "chl_trend", "chl_mean", "productivity_class",
      "sst_gradient", "frontal_zones", "fishing_summary", "mpa_stats",
      "overfishing_risk_index", "overfishing_risk_class",
      "juvenile_habitat_score", "juvenile_habitat_class">>

\* The output files in the order export_processed_data writes them: one
\* NetCDF file per field, then the summary statistics, then the metadata.
BasicExportFiles(pd) ==
    LET fields == SelectSeq(BasicOutputOrder, LAMBDA k : Has(pd, k) /\ pd[k] = "field")
    IN  [i \in 1..Len(fields) |-> fields[i] \o ".nc"]
        \o (IF Has(pd, "fishing_summary") \/ Has(pd, "mpa_stats")
            THEN <<"summary_statistics.csv">> ELSE <<>>)
        \o <<"processing_metadata.json">>

\* Writing the files in order until one fails: export_processed_data has one
\* try block around all the writes.
RECURSIVE WriteUntilFailure(_, _, _)
WriteUntilFailure(dir, names, unwritable) ==
    IF names = <<>> \/ Head(names) \in unwritable THEN dir
    ELSE WriteUntilFailure(Put(dir, Head(names), "written"), Tail(names), unwritable)

\* MedGuardProcessor.export_processed_data
ExportProcessedData ==
    /\ processed_dir' = WriteUntilFailure(processed_dir, BasicExportFiles(processed_data),
                                          disk.unwritable)
    /\ UNCHANGED <<disk, run, output_dir, basicVars, advVars, simVars, trainVars, obsVars>>

\* generate_processing_report writes its file outside any try block.
ReportFile == "processing_report.txt"

\* MedGuardProcessor.run_full_pipeline: load, the stages, export, report.
RunBasicPipeline ==
    LET raw == LoadFiles(LoadFiles(raw_data, disk.files, CopernicusOrder),
                         disk.files, EmodnetOrder)
        pd == BasicStages(raw, processed_data)
        exported == WriteUntilFailure(processed_dir, BasicExportFiles(pd), disk.unwritable)
    IN  /\ raw_data' = raw
        /\ processed_data' = pd
        /\ IF ReportFile \in disk.unwritable
           THEN /\ processed_dir' = exported
                /\ run' = [run EXCEPT !.basic = "raised in generate_processing_report"]
           ELSE /\ processed_dir' = Put(exported, ReportFile, "written")
                /\ run' = [run EXCEPT !.basic = "complete"]
        /\ UNCHANGED <<disk, output_dir, advVars, simVars, trainVars, obsVars>>

\* The stages of the advanced processor.  No stage catches its own
\* exceptions and neither does run_full_pipeline, so a stage state carries
\* the stage that raised, if any: [processed, raised].
NoStage == ""
Raise(st, stage) == [st EXCEPT !.raised = stage]
\* A newly computed output replaces the entry; a new DataArray has no attrs.
Store(st, keys, type) ==
    [st EXCEPT !.processed = PutAll(@, keys, type),
               !.attrs = Without(@, {keys[i] : i \in DOMAIN keys})]
\* self.metadata['innovations_applied'].append(tag)
Tag(st, tag) == [st EXCEPT !.applied = Append(@, tag)]

\* detect_illegal_fishing_patterns: suspects are stored when clusters of
\* high-effort cells lie near an MPA, which `found` decides.
DetectIllegalFishingStage(d, st, found) ==
    IF st.raised # NoStage \/ ~Has(d, "fishing") THEN st
    ELSE Tag(IF IsOk(d, "fishing") /\ IsOk(d, "mpa") /\ found
             THEN Store(st, <<"illegal_fishing_suspects">>, "table")
             ELSE st,
             "illegal_fishing_detection")

\* A livelihood stage that reads the FAO statistics without testing for them.
LivelihoodsStageUnguarded(d, st) ==
    IF st.raised # NoStage THEN st
    ELSE IF ~Has(d, "fishing") THEN st
    ELSE IF ~Has(d, "fao_stats") \/ d["fishing"] = "malformed"
         THEN Raise(st, "assess_fisher_livelihoods_impact")
    ELSE Tag(Store(st, <<"socioeconomic_scenarios">>, "table"),
             "socioeconomic_impact_modeling")

\* assess_fisher_livelihoods_impact: estimated_jobs is assigned only under
\* 'fishing_hours' in columns, and read unconditionally.
LivelihoodsStage(d, st) ==
    IF st.raised # NoStage THEN st
    ELSE IF ~Has(d, "fishing") \/ ~Has(d, "fao_stats") THEN st
    ELSE IF d["fishing"] = "malformed" THEN Raise(st, "assess_fisher_livelihoods_impact")
    ELSE Tag(Store(st, <<"socioeconomic_scenarios">>, "table"),
             "socioeconomic_impact_modeling")

\* calculate_ebfm_indicators
EbfmStage(d, st) ==
    IF st.raised # NoStage THEN st
    ELSE IF Has(d, "chlorophyll") /\ d["chlorophyll"] = "malformed"
         THEN Raise(st, "calculate_ebfm_indicators")
    ELSE IF Has(d, "sst") /\ Has(d, "chlorophyll") /\ Has(d, "currents")
         THEN IF d["sst"] = "malformed"
              THEN Raise(st, "calculate_ebfm_indicators")
              ELSE Tag(Store(Store(st, <<"habitat_quality_index">>, "field"),
                             <<"ebfm_indicators">>, "dict"),
                       "ecosystem_based_indicators")
    ELSE Tag(Store(st, <<"ebfm_indicators">>, "dict"), "ecosystem_based_indicators")

\* calculate_multifactor_risk_index
MultifactorRiskStage(d, st) ==
    IF st.raised # NoStage THEN st
    ELSE IF Has(d, "sst") /\ d["sst"] = "malformed"
         THEN Raise(st, "calculate_multifactor_risk_index")
    ELSE LET comps == AdvWeightKeys(d, st.processed) \ {"fishing_pressure", "protection_gap"}
         IN  [IF comps # {}
              THEN Store(st, <<"overfishing_risk_index", "risk_classification">>, "field")
              ELSE st EXCEPT !.components = comps]

\* calculate_larval_connectivity: with fewer than two time steps no FTLE
\* field is computed, which `computed` decides.
ConnectivityStage(d, st, computed) ==
    IF st.raised # NoStage THEN st
    ELSE IF ~Has(d, "currents") \/ ~Has(d, "sst") THEN st
    ELSE IF d["currents"] = "malformed" \/ d["sst"] = "malformed"
         THEN Raise(st, "calculate_larval_connectivity")
    ELSE IF ~computed THEN st
    ELSE Tag(Store(IF IsOk(d, "chlorophyll")
                   THEN Store(st, <<"nursery_habitat_score">>, "field") ELSE st,
                   <<"larval_connectivity", "spawning_aggregation_zones">>, "field"),
             "larval_connectivity_modeling")

\* optimize_mpa_network without its test for larval_connectivity.
OptimizeMpaStageUnguarded(d, st, sites) ==
    IF st.raised # NoStage THEN st
    ELSE IF sites
         THEN Tag(Store(st, <<"recommended_mpa_locations">>, "table"),
                  "dynamic_mpa_optimization")
         ELSE st

\* optimize_mpa_network: `sites` decides whether any candidate site has a
\* defined connectivity value.
OptimizeMpaStage(d, st, sites) ==
    IF st.raised # NoStage THEN st
    ELSE IF Has(st.processed, "larval_connectivity") /\ sites
         THEN Tag(Store(st, <<"recommended_mpa_locations">>, "table"),
                  "dynamic_mpa_optimization")
         ELSE st

\* The processor as a stage finds it: nothing raised yet.
StageEntry(p) ==
    [processed |-> p, raised |-> NoStage, components |-> risk_components,
     attrs |-> field_attrs, applied |-> innovations_applied]

AdvStages(d, before, found, computed, sites) ==
    OptimizeMpaStage(d,
      ConnectivityStage(d,
        MultifactorRiskStage(d,
          EbfmStage(d,
            LivelihoodsStage(d,
              DetectIllegalFishingStage(d, StageEntry(before), found)))),
        computed),
      sites)

\* One stage of the advanced processor invoked on its own: what the stage
\* leaves behind; an exception it raises goes to the caller.
StageCall(st) ==
    /\ Len(innovations_applied) < MaxApplied
    /\ processed' = st.processed
    /\ risk_components' = st.components
    /\ field_attrs' = st.attrs
    /\ innovations_applied' = st.applied
    /\ UNCHANGED <<data, basicVars, simVars, pipeVars, trainVars, predictions, dashboard, models_dir>>

InvokeDetectIllegalFishing(found) ==
    StageCall(DetectIllegalFishingStage(data, StageEntry(processed), found))
InvokeFisherLivelihoods == StageCall(LivelihoodsStage(data, StageEntry(processed)))
InvokeEbfmIndicators == StageCall(EbfmStage(data, StageEntry(processed)))
InvokeMultifactorRiskIndex == StageCall(MultifactorRiskStage(data, StageEntry(processed)))
InvokeLarvalConnectivity(computed) ==
    StageCall(ConnectivityStage(data, StageEntry(processed), computed))
InvokeOptimizeMpaNetwork(sites) ==
    StageCall(OptimizeMpaStage(data, StageEntry(processed), sites))

\* The file export_to_s3_compatible writes for an output, by its type.
AdvFileOf(k, type) ==
    IF type = "field" THEN k \o ".nc"
    ELSE IF k = "recommended_mpa_locations" THEN k \o ".geojson" ELSE k \o ".csv"

\* export_to_s3_compatible: every write has its own try block, so each file
\* that can be written is written; an output that is neither a field nor a
\* table has no file.
AdvExported(dir, p, unwritable) ==
    LET names == {AdvFileOf(k, p[k]) : k \in {x \in DOMAIN p : p[x] \in {"field", "table"}}}
                 \cup {"processing_metadata.json"}
        written == names \ unwritable
    IN  [f \in (DOMAIN dir) \cup written |-> IF f \in written THEN "written" ELSE dir[f]]

\* The attributes export_to_s3_compatible sets on a DataArray before writing it.
ExportAttrs == {"standard_name", "long_name", "units", "processing_date", "source"}
Annotated(attrs, p) ==
    [k \in {x \in DOMAIN p : p[x] = "field"} |->
        (IF Has(attrs, k) THEN attrs[k] ELSE {}) \cup ExportAttrs]

\* AdvancedMedGuardProcessor.export_to_s3_compatible
ExportToS3Compatible ==
    /\ output_dir' = AdvExported(output_dir, processed, disk.unwritable)
    /\ field_attrs' = Annotated(field_attrs, processed)
    /\ UNCHANGED <<disk, run, processed_dir, basicVars, advVars, simVars, trainVars,
                   risk_components, innovations_applied, predictions, dashboard, models_dir>>

\* AdvancedMedGuardProcessor.run_full_pipeline: the six stages, then export.
RunAdvancedPipeline(found, computed, sites) ==
    LET st == AdvStages(data, processed, found, computed, sites)
    IN  /\ Len(innovations_applied) < MaxApplied
        /\ processed' = st.processed
        /\ IF st.raised # NoStage
           THEN /\ run' = [run EXCEPT !.advanced = "raised in " \o st.raised]
                /\ field_attrs' = st.attrs
                /\ UNCHANGED output_dir
           ELSE /\ run' = [run EXCEPT !.advanced = "complete"]
                /\ field_attrs' = Annotated(st.attrs, st.processed)
                /\ output_dir' = AdvExported(output_dir, st.processed, disk.unwritable)
        /\ risk_components' = st.components
        /\ innovations_applied' = st.applied
        /\ UNCHANGED <<data, disk, processed_dir, basicVars, simVars, trainVars, predictions, dashboard, models_dir>>

(***************************************************************************)
(* Training of the two models (train_models_script.py).  A processed       *)
(* directory is a dict from file name to the field the file holds; a field *)
(* with a time dimension is a sequence of fields.  The rows of a feature   *)
(* matrix are the grid cells, flattened.                                   *)
(***************************************************************************)
\* A model object after construction, the arrays a caller holds, a bundle on disk.
ModelConstructed ==
    [feature_names |-> <<>>, trained |-> FALSE, fitted |-> FALSE, fitted_features |-> <<>>]
NotPrepared == [kind |-> "unassigned", X |-> <<>>, y |-> <<>>, columns |-> <<>>,
                cells |-> <<>>, null_cells |-> {}]
NotSaved == [saved |-> FALSE, feature_names |-> <<>>, trained |-> FALSE,
             fitted |-> FALSE, fitted_features |-> <<>>]

\* The feature columns in the order the code tests for them.
RiskFeatures ==
    <<[name |-> "sst_anomaly", file |-> "sst_anomaly.nc", timed |-> TRUE],
      [name |-> "sst_standardized", file |-> "sst_standardized.nc", timed |-> TRUE],
      [name |-> "chl_trend", file |-> "chl_trend.nc", timed |-> FALSE],
      [name |-> "chl_mean", file |-> "chl_mean.nc", timed |-> FALSE],
      [name |-> "sst_gradient", file |-> "sst_gradient.nc", timed |-> FALSE],
      [name |-> "current_speed", file |-> "current_speed.nc", timed |-> TRUE]>>

CatchFeatures ==
    <<[name |-> "sst", file |-> "sst_anomaly.nc", timed |-> TRUE],
      [name |-> "chlorophyll", file |-> "chl_mean.nc", timed |-> FALSE],
      [name |-> "current_speed", file |-> "current_speed.nc", timed |-> TRUE]>>

\* sin and cos of 2 * pi * month / 12, for the months where both are exact.
MonthFeatures(month) ==
    CASE month = 3 -> <<One, Zero>>
      [] month = 6 -> <<Zero, Neg(One)>>
      [] month = 9 -> <<Neg(One), Zero>>
      [] OTHER -> <<Zero, One>>

LoadedFeatures(dir, features) == SelectSeq(features, LAMBDA f : Has(dir, f.file))
\* .isel(time=-1).values.flatten() or .values.flatten()
Column(dir, f) == IF f.timed THEN dir[f.file][NTimes] ELSE dir[f.file]
FeatureNames(fs) == [i \in DOMAIN fs |-> fs[i].name]
\* features_df.isna().any(axis=1)
AnyNa(dir, fs, c) == \E i \in DOMAIN fs : IsNaN(Column(dir, fs[i])[c])
CellOrder == [c \in Cells |-> c]

\* labels = (risk_index > 0.6): a boolean array, False where the index is NaN.
LabelThreshold == Rat(3, 5)
Label(risk) == Less(LabelThreshold, risk)
\* np.isnan of a boolean
IsNanOfBool(b) == FALSE

\* OverfishingRiskModel.prepare_training_data: what happens to feature_names
\* and what is returned.
RiskPrepared(dir) ==
    IF ~Has(dir, "overfishing_risk_index.nc")
    THEN [outcome |-> "returned", names_set |-> FALSE, feature_names |-> <<>>,
          data |-> [NotPrepared EXCEPT !.kind = "none"]]
    ELSE LET risk_index == dir["overfishing_risk_index.nc"]
             fs == LoadedFeatures(dir, RiskFeatures)
             mask == [c \in Cells |-> ~(AnyNa(dir, fs, c) \/ IsNanOfBool(Label(risk_index[c])))]
             kept == SelectSeq(CellOrder, LAMBDA c : mask[c])
         IN  IF fs = <<>>
             THEN \* the mask of an empty frame cannot be combined with the labels
                  [outcome |-> "raised", names_set |-> TRUE, feature_names |-> <<>>,
                   data |-> NotPrepared]
             ELSE [outcome |-> "returned", names_set |-> TRUE,
                   feature_names |-> FeatureNames(fs),
                   data |-> [kind |-> "data",
                             X |-> Array([r \in DOMAIN kept |->
                                      Array([i \in DOMAIN fs |-> Column(dir, fs[i])[kept[r]]])]),
                             y |-> Array([r \in DOMAIN kept |-> Label(risk_index[kept[r]])]),
                             columns |-> FeatureNames(fs),
                             cells |-> kept,
                             null_cells |-> {c \in Cells :
                                 AnyNa(dir, fs, c) \/ IsNaN(risk_index[c])}]]

\* JuvenileCatchForecastModel.prepare_training_data.
CatchPrepared(dir, month) ==
    IF ~Has(dir, "juvenile_habitat_score.nc")
    THEN [outcome |-> "returned", names_set |-> FALSE, feature_names |-> <<>>,
          data |-> [NotPrepared EXCEPT !.kind = "none"]]
    ELSE LET target == dir["juvenile_habitat_score.nc"]
             fs == LoadedFeatures(dir, CatchFeatures)
             names == FeatureNames(fs) \o <<"month_sin", "month_cos">>
             mask == [c \in Cells |-> ~(AnyNa(dir, fs, c) \/ IsNaN(target[c]))]
             kept == SelectSeq(CellOrder, LAMBDA c : mask[c])
         IN  IF fs = <<>>
             THEN \* a frame of scalars only cannot be built
                  [outcome |-> "raised", names_set |-> FALSE, feature_names |-> <<>>,
                   data |-> NotPrepared]
             ELSE [outcome |-> "returned", names_set |-> TRUE, feature_names |-> names,
                   data |-> [kind |-> "data",
                             X |-> Array([r \in DOMAIN kept |->
                                      Array([i \in DOMAIN fs |-> Column(dir, fs[i])[kept[r]]])
                                          \o MonthFeatures(month)]),
                             y |-> Array([r \in DOMAIN kept |-> target[kept[r]]]),
                             columns |-> names,
                             cells |-> kept,
                             null_cells |-> {c \in Cells :
                                 AnyNa(dir, fs, c) \/ IsNaN(target[c])}]]

PrepareTrainingData(m, month) ==
    LET r == IF m = "risk" THEN RiskPrepared(processed_dir)
             ELSE CatchPrepared(processed_dir, month)
    IN  /\ models' = [models EXCEPT ![m].feature_names =
                          IF r.names_set THEN r.feature_names ELSE @]
        /\ training_data' = [training_data EXCEPT ![m] =
                          IF r.outcome = "raised" THEN @ ELSE r.data]
        /\ UNCHANGED <<bundles, basicVars, advVars, simVars, pipeVars, obsVars>>

\* train(X, y) on the arrays prepare_training_data returned last.  The split
\* needs two rows; the scaler and the model are then fitted; with
\* report_ok false the classification report raises (a test set of one
\* class), and the importance table raises when feature_names does not
\* have one name per column: trained is set only after both.
MinRows == 2
Train(m, report_ok) ==
    LET d == training_data[m]
    IN  /\ d.kind = "data"
        /\ Len(d.X) >= MinRows
        /\ report_ok => (m = "catch" \/ {d.y[r] : r \in DOMAIN d.y} = BOOLEAN)
        /\ m = "catch" => report_ok
        /\ models' = [models EXCEPT
              ![m].fitted = TRUE,
              ![m].fitted_features = d.columns,
              ![m].trained = @ \/ (report_ok /\ Len(models[m].feature_names) = Len(d.columns))]
        /\ UNCHANGED <<training_data, bundles, basicVars, advVars, simVars, pipeVars, obsVars>>

\* A later export adds a file to the processed directory.
AddProcessedFile(file, field) ==
    /\ ~Has(processed_dir, file)
    /\ processed_dir' = Put(processed_dir, file, field)
    /\ UNCHANGED <<disk, run, output_dir, trainVars, basicVars, advVars, simVars, obsVars>>

SaveModel(m) ==
    /\ bundles' = [bundles EXCEPT ![m] =
          [saved |-> TRUE,
           feature_names |-> models[m].feature_names,
           trained |-> models[m].trained,
           fitted |-> models[m].fitted,
           fitted_features |-> models[m].fitted_features]]
    /\ UNCHANGED <<models, training_data, basicVars, advVars, simVars, pipeVars, obsVars>>

\* A predict_risk or forecast that returns without testing the trained flag.
PredictedUnchecked(model, cols) ==
    IF cols # Len(model.fitted_features) THEN "raised in scaler.transform"
    ELSE "returned"

\* predict_risk(X) / forecast(X) for an X of `cols` columns: the ValueError of
\* an untrained model, else the scaler rejects an X of another width than the
\* one it was fitted on, else the prediction is returned.
Predicted(model, cols) ==
    IF ~model.trained THEN "raised ValueError"
    ELSE IF cols # Len(model.fitted_features) THEN "raised in scaler.transform"
    ELSE "returned"

\* OverfishingRiskModel.predict_risk / JuvenileCatchForecastModel.forecast
Predict(m, cols) ==
    /\ predictions' = Put(predictions, m, Predicted(models[m], cols))
    /\ UNCHANGED <<trainVars, basicVars, advVars, simVars, pipeVars, stageVars, dashboard, models_dir>>

(***************************************************************************)
(* AdvancedMedGuardProcessor.detect_illegal_fishing_patterns.  Coordinates *)
(* and distances are in hundredths of a degree.  The fishing records are   *)
(* a sequence of groups [x, y, hours, rows]: `rows` consecutive records of *)
(* the same position and effort.  An MPA is an axis-parallel rectangle     *)
(* [name, x0, x1, y0, y1].                                                 *)
(***************************************************************************)
EffortColumns == <<"fishing_hours", "hours", "effort", "intensity">>
NoColumn == ""
EffortCol(columns) ==
    LET found == SelectSeq(EffortColumns, LAMBDA col : col \in columns)
    IN  IF found = <<>> THEN NoColumn ELSE Head(found)

\* The number of records in the groups with index in S.
RECURSIVE RowsOf(_, _)
RowsOf(groups, S) ==
    IF S = {} THEN 0
    ELSE LET i == CHOOSE i \in S : TRUE
         IN  groups[i].rows + RowsOf(groups, S \ {i})

\* The k-th smallest effort value, k counted from 0.
HoursAt(groups, k) ==
    CHOOSE h \in {groups[i].hours : i \in DOMAIN groups} :
        /\ RowsOf(groups, {i \in DOMAIN groups : groups[i].hours < h}) <= k
        /\ k < RowsOf(groups, {i \in DOMAIN groups : groups[i].hours <= h})

\* Series.quantile(0.95), linear interpolation between the two order
\* statistics around position 0.95 * (n - 1); NaN for no record.
QuantilePct == 95
Quantile(groups) ==
    LET n == RowsOf(groups, DOMAIN groups)
        pos == QuantilePct * (n - 1)
        lo == pos \div 100
        hi == IF pos % 100 = 0 THEN lo ELSE lo + 1
    IN  IF n = 0 THEN NaN
        ELSE Add(Rat(HoursAt(groups, lo), 1),
                 Mul(Rat(pos % 100, 100),
                     Rat(HoursAt(groups, hi) - HoursAt(groups, lo), 1)))

\* fishing_gdf[fishing_gdf[effort_col] > effort_threshold]
HighEffortCells(groups) ==
    SelectSeq(groups, LAMBDA g : Less(Quantile(groups), Rat(g.hours, 1)))

\* DBSCAN(eps=0.1, min_samples=5): a sample is a core sample when at least
\* min_samples samples, itself included, lie within eps of it.
Eps == 10
MinSamples == 5
WithinEps(a, b) ==
    (a.x - b.x) * (a.x - b.x) + (a.y - b.y) * (a.y - b.y) <= Eps * Eps
Neighbours(pts, i) == {j \in DOMAIN pts : WithinEps(pts[i], pts[j])}

\* A core test that leaves the sample itself out of the count.
IsCoreWithoutSelf(pts, i) == RowsOf(pts, Neighbours(pts, i)) - 1 >= MinSamples

IsCore(pts, i) == RowsOf(pts, Neighbours(pts, i)) >= MinSamples

\* The samples reached from S through neighbourhoods of core samples.
RECURSIVE Reached(_, _)
Reached(pts, S) ==
    LET more == S \cup UNION {Neighbours(pts, i) : i \in {j \in S : IsCore(pts, j)}}
    IN  IF more = S THEN S ELSE Reached(pts, more)

\* The scan over the samples in order: an unlabelled core sample starts the
\* next cluster, which takes every sample reached from it that has no label.
RECURSIVE Scan(_, _, _, _)
Scan(pts, i, labels, next) ==
    IF i > Len(pts) THEN labels
    ELSE IF labels[i] # -1 \/ ~IsCore(pts, i) THEN Scan(pts, i + 1, labels, next)
    ELSE LET found == {j \in Reached(pts, {i}) : labels[j] = -1}
         IN  Scan(pts, i + 1,
                  [j \in DOMAIN pts |-> IF j \in found THEN next ELSE labels[j]],
                  next + 1)
Labels(pts) == Scan(pts, 1, [i \in DOMAIN pts |-> -1], 0)

\* Members of a cluster, the noise samples counted in as well.
ClusterPointsWithNoise(labels, cluster_id) ==
    {i \in DOMAIN labels : labels[i] \in {cluster_id, -1}}

\* high_effort_cells[high_effort_cells['cluster'] == cluster_id]
ClusterPoints(labels, cluster_id) == {i \in DOMAIN labels : labels[i] = cluster_id}

RECURSIVE SumCoord(_, _)
SumCoord(points, k) ==
    IF points = {} THEN 0
    ELSE LET q == CHOOSE q \in points : TRUE
         IN  q[k] + SumCoord(points \ {q}, k)

\* cluster_geoms.unary_union.centroid: the mean of the distinct positions.
ClusterCentroid(pts, members) ==
    LET distinct == {<<pts[i].x, pts[i].y>> : i \in members}
        n == Cardinality(distinct)
    IN  <<Rat(SumCoord(distinct, 1), n), Rat(SumCoord(distinct, 2), n)>>

\* The root of dx^2 + dy^2: in fixed point up to the square of 10, rounded
\* down to whole hundredths of a degree beyond.
Hypot(dx, dy) ==
    LET v == Add(Mul(dx, dx), Mul(dy, dy))
    IN  IF v[1] \div v[2] >= Eps * Eps THEN Rat(ISqrt(v[1] \div v[2]), 1) ELSE Sqrt(v)

FMax(a, b) == IF Less(a, b) THEN b ELSE a
FMin(a, b) == IF Less(b, a) THEN b ELSE a

\* cluster_centroid.distance(mpa.geometry.boundary)
BoundaryDistance(p, mpa) ==
    LET left == Sub(Rat(mpa.x0, 1), p[1])
        right == Sub(p[1], Rat(mpa.x1, 1))
        below == Sub(Rat(mpa.y0, 1), p[2])
        above == Sub(p[2], Rat(mpa.y1, 1))
        dx == FMax(Zero, FMax(left, right))
        dy == FMax(Zero, FMax(below, above))
    IN  IF dx = Zero /\ dy = Zero
        THEN FMin(FMin(FAbs(left), FAbs(right)), FMin(FAbs(below), FAbs(above)))
        ELSE IF dx = Zero THEN dy
        ELSE IF dy = Zero THEN dx
        ELSE Hypot(dx, dy)

NearMpa == 5
RiskSlope == 20
PerDegree == 100
TotalHours(pts, members) ==
    RowsOf([i \in DOMAIN pts |-> [rows |-> pts[i].hours * pts[i].rows]], members)

\* The record of one cluster: the first MPA of the table whose boundary is
\* closer than 0.05 degrees to the centroid, none when there is no such MPA.
SuspiciousCluster(pts, labels, cluster_id, mpa_gdf) ==
    LET cluster_points == ClusterPoints(labels, cluster_id)
        cluster_centroid == ClusterCentroid(pts, cluster_points)
        near == SelectSeq(mpa_gdf, LAMBDA mpa :
                    Less(BoundaryDistance(cluster_centroid, mpa), Rat(NearMpa, 1)))
    IN  IF near = <<>> THEN <<>>
        ELSE LET distance == Div(BoundaryDistance(cluster_centroid, Head(near)),
                                 Rat(PerDegree, 1))
             IN  <<[cluster_id |-> cluster_id,
                    n_vessels |-> RowsOf(pts, cluster_points),
                    total_effort_hours |-> TotalHours(pts, cluster_points),
                    near_mpa |-> Head(near).name,
                    risk_score |-> FMin(One, Sub(One, Mul(distance, Rat(RiskSlope, 1))))]>>

RECURSIVE SuspiciousClusters(_, _, _, _)
SuspiciousClusters(pts, labels, cluster_id, mpa_gdf) ==
    IF cluster_id \notin {labels[i] : i \in DOMAIN labels} THEN <<>>
    ELSE SuspiciousCluster(pts, labels, cluster_id, mpa_gdf)
            \o SuspiciousClusters(pts, labels, cluster_id + 1, mpa_gdf)

MinHighEffort == 10
IllegalFishingSuspects(d) ==
    IF ~Has(d, "fishing") \/ EffortCol(d["fishing"].columns) = NoColumn THEN <<>>
    ELSE LET high_effort_cells == HighEffortCells(d["fishing"].rows)
         IN  IF RowsOf(high_effort_cells, DOMAIN high_effort_cells) > MinHighEffort
                /\ Has(d, "mpa") /\ Len(d["mpa"]) > 0
             THEN SuspiciousClusters(high_effort_cells, Labels(high_effort_cells), 0, d["mpa"])
             ELSE <<>>

DetectIllegalFishingPatterns ==
    LET suspicious_clusters == IllegalFishingSuspects(data)
    IN  /\ Len(innovations_applied) < MaxApplied
        /\ processed' = IF suspicious_clusters # <<>>
                        THEN Put(processed, "illegal_fishing_suspects", suspicious_clusters)
                        ELSE processed
        /\ innovations_applied' = IF Has(data, "fishing")
                                  THEN Append(innovations_applied, "illegal_fishing_detection")
                                  ELSE innovations_applied
        /\ UNCHANGED <<data, basicVars, simVars, pipeVars, trainVars,
                       risk_components, field_attrs, predictions, dashboard, models_dir>>

(***************************************************************************)
(* MedGuardProcessor.calculate_current_speed.  A currents dataset holds    *)
(* the variables uo and vo, each a sequence of fields.                     *)
(***************************************************************************)
\* np.arctan2(v, u) * 180 / np.pi, for currents along the axes and the
\* diagonals, where the angle is a whole number of degrees.
ArcTan2Degrees(v, u) ==
    IF IsNaN(v) \/ IsNaN(u) THEN NaN
    ELSE CASE v[1] = 0 /\ u[1] >= 0 -> Zero
           [] v[1] = 0 /\ u[1] < 0 -> <<180, 1>>
           [] u[1] = 0 /\ v[1] > 0 -> <<90, 1>>
           [] u[1] = 0 /\ v[1] < 0 -> <<-90, 1>>
           [] FAbs(u) = FAbs(v) /\ u[1] > 0 /\ v[1] > 0 -> <<45, 1>>
           [] FAbs(u) = FAbs(v) /\ u[1] < 0 /\ v[1] > 0 -> <<135, 1>>
           [] FAbs(u) = FAbs(v) /\ u[1] < 0 /\ v[1] < 0 -> <<-135, 1>>
           [] FAbs(u) = FAbs(v) /\ u[1] > 0 /\ v[1] < 0 -> <<-45, 1>>

\* a % m for floats, m > 0: the remainder has the sign of m.
FloatMod(a, m) ==
    IF ~IsFinite(a) THEN NaN
    ELSE Sub(a, Mul(m, <<(a[1] * m[2]) \div (a[2] * m[1]), 1>>))

FullTurn == <<360, 1>>
Direction(u, v) == FloatMod(Add(ArcTan2Degrees(v, u), FullTurn), FullTurn)
Speed(u, v) == Sqrt(Add(Mul(u, u), Mul(v, v)))

CalculateCurrentSpeed ==
    /\ IF Has(raw_data, "currents")
          /\ Has(raw_data["currents"], "uo") /\ Has(raw_data["currents"], "vo")
       THEN LET u == raw_data["currents"]["uo"]
                v == raw_data["currents"]["vo"]
            IN  processed_data' =
                    Put(Put(processed_data, "current_speed",
                            Array([t \in DOMAIN u |->
                                Array([c \in Cells |-> Speed(u[t][c], v[t][c])])])),
                        "current_direction",
                        Array([t \in DOMAIN u |->
                            Array([c \in Cells |-> Direction(u[t][c], v[t][c])])]))
       ELSE UNCHANGED processed_data
    /\ UNCHANGED <<raw_data, advVars, simVars, pipeVars, trainVars, obsVars>>

(***************************************************************************)
(* Habitat suitability: MedGuardProcessor.identify_juvenile_habitat_zones  *)
(* and the habitat quality index of calculate_ebfm_indicators.             *)
(***************************************************************************)
\* DataArray.quantile(0.95) over the non-NaN values of a field, with linear
\* interpolation; NaN for a field of NaN only.
FieldQuantile(f) ==
    LET xs == SelectSeq(f, NotNaN)
        n == Len(xs)
        at(k) == CHOOSE x \in {xs[i] : i \in 1..n} :
                    /\ Cardinality({i \in 1..n : Less(xs[i], x)}) <= k
                    /\ k < Cardinality({i \in 1..n : Leq(xs[i], x)})
        pos == QuantilePct * (n - 1)
        lo == pos \div 100
        hi == IF pos % 100 = 0 THEN lo ELSE lo + 1
    IN  IF n = 0 THEN NaN
        ELSE Add(at(lo), Mul(Rat(pos % 100, 100), Sub(at(hi), at(lo))))

OptimalTemp == <<37, 2>>
\* 1 - np.abs((t - 18.5) / 18.5)
Triangle(t) == Sub(One, FAbs(Div(Sub(t, OptimalTemp), OptimalTemp)))

\* A temperature score without the window of suitable temperatures.
TempScoreUnwindowed(sst) == Triangle(sst)

\* identify_juvenile_habitat_zones: xr.where((sst >= 15) & (sst <= 22), temp_score, 0)
BasicTempScore(sst) ==
    IF Leq(<<15, 1>>, sst) /\ Leq(sst, <<22, 1>>) THEN Triangle(sst) ELSE Zero

\* calculate_ebfm_indicators: xr.where((temp_mean >= 13) & (temp_mean <= 24), temp_score, 0)
AdvTempScore(temp_mean) ==
    IF Leq(<<13, 1>>, temp_mean) /\ Leq(temp_mean, <<24, 1>>) THEN Triangle(temp_mean) ELSE Zero

\* chl / chl.quantile(0.95), values above 1 replaced by 1
ChlScore(chl) ==
    LET q == FieldQuantile(chl)
    IN  Array([c \in Cells |->
            IF Less(One, Div(chl[c], q)) THEN One ELSE Div(chl[c], q)])

\* 1 - current / current.quantile(0.95), values below 0 replaced by 0
CurrentScore(current) ==
    LET q == FieldQuantile(current)
    IN  Array([c \in Cells |->
            IF Less(Sub(One, Div(current[c], q)), Zero) THEN Zero
            ELSE Sub(One, Div(current[c], q))])

JuvenileHabitatScore(raw, pd) ==
    LET sst == raw["sst"].values[NTimes]
        temp_score == Array([c \in Cells |-> BasicTempScore(sst[c])])
        with_chl ==
            IF Has(raw, "chlorophyll")
            THEN LET chl_score == ChlScore(raw["chlorophyll"].values[NTimes])
                 IN  Array([c \in Cells |->
                        Div(Add(temp_score[c], chl_score[c]), <<2, 1>>)])
            ELSE temp_score
    IN  IF Has(pd, "current_speed")
        THEN LET current_score == CurrentScore(pd["current_speed"][NTimes])
             IN  Array([c \in Cells |->
                    Div(Add(Mul(with_chl[c], <<2, 1>>), current_score[c]), <<3, 1>>)])
        ELSE with_chl

HabitatClass(score) ==
    IF Less(score, <<3, 10>>) THEN "poor"
    ELSE IF Less(score, <<3, 5>>) THEN "moderate"
    ELSE "good"

IdentifyJuvenileHabitatZones ==
    /\ IF Has(raw_data, "sst")
       THEN LET habitat_score == JuvenileHabitatScore(raw_data, processed_data)
            IN  processed_data' =
                    Put(Put(processed_data, "juvenile_habitat_score", habitat_score),
                        "juvenile_habitat_class",
                        Array([c \in Cells |-> HabitatClass(habitat_score[c])]))
       ELSE UNCHANGED processed_data
    /\ UNCHANGED <<raw_data, advVars, simVars, pipeVars, trainVars, obsVars>>

\* temp.mean(dim='time')
TempMean(d) ==
    LET temp == NearestSurface(d["sst"]).values
    IN  Array([c \in Cells |-> MeanOf([t \in Times |-> temp[t][c]])])

\* (temp_score + chl_score_aligned + temp_stability) / 3
HabitatQuality(d) ==
    LET temp == NearestSurface(d["sst"]).values
        chl == FirstLevel(d["chlorophyll"]).values
        temp_mean == TempMean(d)
        chl_score == ChlScore(Array([c \in Cells |-> MeanOf([t \in Times |-> chl[t][c]])]))
        temp_std == [c \in Cells |-> StdOf([t \in Times |-> temp[t][c]])]
        temp_stability == [c \in Cells |->
            Div(One, Add(One, Div(temp_std[c], temp_mean[c])))]
    IN  Array([c \in Cells |->
            Div(Add(Add(AdvTempScore(temp_mean[c]), chl_score[c]), temp_stability[c]),
                <<3, 1>>)])

\* The indicators dict: which entries it gets, a text or a number each.
Indicators(d) ==
    LET with_catch == IF Has(d, "fao_stats")
                      THEN Put(EmptyDict, "catch_diversity_index", "text")
                      ELSE EmptyDict
        with_ppr == IF Has(d, "chlorophyll") /\ Has(d, "fishing")
                       /\ "fishing_hours" \in d["fishing"].columns
                    THEN Put(with_catch, "primary_production_required", "number")
                    ELSE with_catch
    IN  Put(Put(with_ppr, "marine_trophic_index", "text"), "size_spectrum_slope", "text")

CalculateEbfmIndicators ==
    /\ Len(innovations_applied) < MaxApplied
    /\ processed' =
          Put(IF Has(data, "sst") /\ Has(data, "chlorophyll") /\ Has(data, "currents")
              THEN Put(processed, "habitat_quality_index", HabitatQuality(data))
              ELSE processed,
              "ebfm_indicators", Indicators(data))
    /\ field_attrs' = Without(field_attrs, {"habitat_quality_index"})
    /\ innovations_applied' = Append(innovations_applied, "ecosystem_based_indicators")
    /\ UNCHANGED <<data, basicVars, simVars, pipeVars, trainVars, risk_components,
                   predictions, dashboard, models_dir>>

(***************************************************************************)
(* States after construction, and the input sets of the specifications.    *)
(***************************************************************************)
\* A simulator as MPASimulator.__init__ leaves it, with no summary file.
SimConstructed ==
    /\ summary_file = [kind |-> "absent", coverage |-> None]
    /\ baseline_coverage = None
    /\ scenarios = EmptyDict
    /\ calls = {}

\* Nothing computed or reported yet.
ObsIdle ==
    /\ risk_components = {}
    /\ field_attrs = EmptyDict
    /\ innovations_applied = <<>>
    /\ predictions = EmptyDict
    /\ dashboard = EmptyDict
    /\ models_dir = EmptyDict

BasicConstructed == raw_data = EmptyDict /\ processed_data = EmptyDict
AdvConstructed == data = EmptyDict /\ processed = EmptyDict

\* No input files, empty output directories, no pipeline run yet.
PipeIdle ==
    /\ disk = [files |-> EmptyDict, unwritable |-> {}]
    /\ run = [basic |-> "idle", advanced |-> "idle"]
    /\ processed_dir = EmptyDict
    /\ output_dir = EmptyDict

\* OverfishingRiskModel.__init__ and JuvenileCatchForecastModel.__init__:
\* no feature names, not trained, nothing fitted; nothing prepared or saved.
TrainIdle ==
    /\ models = [risk |-> ModelConstructed, catch |-> ModelConstructed]
    /\ training_data = [risk |-> NotPrepared, catch |-> NotPrepared]
    /\ bundles = [risk |-> NotSaved, catch |-> NotSaved]

\* Every dict with keys among `keys`, key k holding a value of vals[k].
RECURSIVE DictsOver(_, _)
DictsOver(keys, vals) ==
    IF keys = {} THEN {EmptyDict}
    ELSE LET k == CHOOSE k \in keys : TRUE
             rest == DictsOver(keys \ {k}, vals)
         IN  rest \cup {Put(d, k, v) : d \in rest, v \in vals[k]}

\* Contents of the factor fields the composers read.
StdValues == {NaN, <<-2, 1>>, One}
TrendValues == {NaN, <<-1, 1>>}
HabitatValues == {<<1, 4>>, One}
ConnValues == {Zero, <<2, 1>>}
SstValues == {NaN, <<18, 1>>, <<20, 1>>}

\* The time coordinate: calendar months, in time order, over two months.
MonthPatterns ==
    {m \in [Times -> {1, 2}] : \A t \in Times : t > 1 => m[t - 1] <= m[t]}

\* SST datasets: every time coordinate and every content.
SstDatasets ==
    {[months |-> m, values |-> v] : m \in MonthPatterns, v \in [Times -> [Cells -> SstValues]]}

\* SST datasets within one calendar month that vary at the last time step only.
SstLastStepDatasets ==
    {[months |-> [t \in Times |-> 1],
      values |-> [t \in Times |-> IF t = NTimes THEN f ELSE [c \in Cells |-> <<18, 1>>]]] :
        f \in [Cells -> SstValues]}

\* The basic processor once its feature transforms have run: any subset of
\* the factor fields, with any content.
BasicFactorStates ==
    DictsOver({"sst_standardized", "chl_trend", "frontal_zones"},
              [sst_standardized |-> {<<f>> : f \in [Cells -> StdValues]},
               chl_trend |-> [Cells -> TrendValues],
               frontal_zones |-> [Cells -> BOOLEAN]])

AdvDataStates ==
    DictsOver({"sst", "fishing", "mpa"},
              [sst |-> SstLastStepDatasets, fishing |-> {"loaded"}, mpa |-> {"loaded"}])

AdvFactorStates ==
    DictsOver({"habitat_quality_index", "larval_connectivity"},
              [habitat_quality_index |-> [Cells -> HabitatValues],
               larval_connectivity |-> [Cells -> ConnValues]])

(***************************************************************************)
(* SpecRisk: the two risk composers over every combination of factors.     *)
(***************************************************************************)
InitRisk ==
    /\ ObsIdle
    /\ SimConstructed
    /\ PipeIdle
    /\ TrainIdle
    /\ \/ /\ AdvConstructed
          /\ raw_data = EmptyDict
          /\ processed_data \in BasicFactorStates
       \/ /\ BasicConstructed
          /\ data \in AdvDataStates
          /\ processed \in AdvFactorStates

NextRisk == CalculateOverfishingRiskIndex \/ CalculateMultifactorRiskIndex

SpecRisk == InitRisk /\ [][NextRisk]_vars

(***************************************************************************)
(* SpecAnom: the SST anomaly transform and the composers that consume it,  *)
(* over every SST dataset.                                                 *)
(***************************************************************************)
InitAnom ==
    /\ ObsIdle
    /\ SimConstructed
    /\ PipeIdle
    /\ TrainIdle
    /\ processed_data = EmptyDict
    /\ processed = EmptyDict
    /\ \/ raw_data \in DictsOver({"sst"}, [sst |-> SstDatasets]) /\ data = EmptyDict
       \/ data \in DictsOver({"sst"}, [sst |-> SstDatasets]) /\ raw_data = EmptyDict

NextAnom ==
    \/ CalculateSstAnomaly
    \/ CalculateOverfishingRiskIndex
    \/ CalculateMultifactorRiskIndex

SpecAnom == InitAnom /\ [][NextAnom]_vars

(***************************************************************************)
(* SpecCov: the MPA coverage statistic over every MPA dataset.             *)
(***************************************************************************)
MaxMpas == 3
PolygonAreas == {0, 12345, 2500000, 10000000}

RECURSIVE SeqsUpTo(_, _)
SeqsUpTo(S, n) ==
    IF n = 0 THEN {<<>>}
    ELSE LET shorter == SeqsUpTo(S, n - 1)
         IN  shorter \cup {Append(q, x) : q \in {r \in shorter : Len(r) = n - 1}, x \in S}

MpaDatasets == {[crs |-> k, areas |-> a] : k \in BOOLEAN, a \in SeqsUpTo(PolygonAreas, MaxMpas)}

InitCov ==
    /\ ObsIdle
    /\ SimConstructed
    /\ PipeIdle
    /\ TrainIdle
    /\ AdvConstructed
    /\ processed_data = EmptyDict
    /\ raw_data \in DictsOver({"mpa"}, [mpa |-> MpaDatasets])

NextCov == CalculateMpaCoverage

SpecCov == InitCov /\ [][NextCov]_vars

(***************************************************************************)
(* SpecSim: the simulator under every summary file and call sequence.      *)
(***************************************************************************)
MaxYears == 2
ExpansionPcts == {0, 20}
YearsInputs == {MaxYears, DefaultYears}
SummaryFiles ==
    {[kind |-> k, coverage |-> None] : k \in {"absent", "no_column", "stats_no_key", "unparsable"}}
    \cup {[kind |-> "stats", coverage |-> q] : q \in {<<5, 1>>, <<37, 10>>}}

InitSim ==
    /\ ObsIdle
    /\ BasicConstructed
    /\ PipeIdle
    /\ TrainIdle
    /\ AdvConstructed
    /\ summary_file \in SummaryFiles
    /\ baseline_coverage = None
    /\ scenarios = EmptyDict
    /\ calls = {}

NextSim ==
    \/ LoadBaseline
    \/ \E pct \in ExpansionPcts, years \in YearsInputs : SimulateExpansion(pct, years)
    \/ CompareScenarios

SpecSim == InitSim /\ [][NextSim]_vars

(***************************************************************************)
(* SpecPipe: run_full_pipeline of both processors over every combination   *)
(* of missing, malformed and unreadable inputs.  SpecExport: the exports    *)
(* of what the pipelines derive, with outputs that cannot be written.      *)
(***************************************************************************)
BasicInputKeys == {"sst", "currents", "chlorophyll", "fishing", "mpa", "salinity"}
AdvInputKeys == {"sst", "currents", "chlorophyll", "fishing", "mpa", "fao_stats"}

\* The files under data/: the unused ssh and habitats files are there when
\* the unused salinity file is.
InputFiles ==
    {IF Has(f, "salinity") THEN PutAll(f, <<"ssh", "habitats">>, "ok") ELSE f :
        f \in DictsOver(BasicInputKeys,
                        [k \in BasicInputKeys |-> {"ok", "malformed", "unreadable"}])}

AdvInputs == DictsOver(AdvInputKeys, [k \in AdvInputKeys |-> {"ok", "malformed"}])

InitPipe ==
    /\ ObsIdle
    /\ SimConstructed
    /\ TrainIdle
    /\ BasicConstructed
    /\ processed = EmptyDict
    /\ run = [basic |-> "idle", advanced |-> "idle"]
    /\ processed_dir = EmptyDict
    /\ output_dir = EmptyDict
    /\ \/ data = EmptyDict /\ disk \in {[files |-> f, unwritable |-> {}] : f \in InputFiles}
       \/ data \in AdvInputs /\ disk = [files |-> EmptyDict, unwritable |-> {}]

NextPipe ==
    \/ RunBasicPipeline
    \/ \E found \in BOOLEAN, computed \in BOOLEAN, sites \in BOOLEAN :
          RunAdvancedPipeline(found, computed, sites)

SpecPipe == InitPipe /\ [][NextPipe]_vars

ExportTargets ==
    {"sst_anomaly.nc", "frontal_zones.nc", "overfishing_risk_index.nc",
     "juvenile_habitat_class.nc", "summary_statistics.csv", "processing_metadata.json",
     "processing_report.txt", "habitat_quality_index.nc", "socioeconomic_scenarios.csv",
     "larval_connectivity.nc", "recommended_mpa_locations.geojson"}

WellFormedFiles == DictsOver(BasicInputKeys, [k \in BasicInputKeys |-> {"ok"}])
WellFormedInputs == DictsOver(AdvInputKeys, [k \in AdvInputKeys |-> {"ok"}])
Unwritables == {{}} \cup {{f} : f \in ExportTargets}

InitExport ==
    /\ ObsIdle
    /\ SimConstructed
    /\ TrainIdle
    /\ BasicConstructed
    /\ processed = EmptyDict
    /\ run = [basic |-> "idle", advanced |-> "idle"]
    /\ processed_dir = EmptyDict
    /\ output_dir = EmptyDict
    /\ \/ data = EmptyDict
          /\ disk \in {[files |-> f, unwritable |-> u] : f \in WellFormedFiles, u \in Unwritables}
       \/ data \in WellFormedInputs
          /\ disk \in {[files |-> EmptyDict, unwritable |-> u] : u \in Unwritables}

NextExport ==
    \/ RunBasicPipeline
    \/ \E found \in BOOLEAN, computed \in BOOLEAN, sites \in BOOLEAN :
          RunAdvancedPipeline(found, computed, sites)
    \/ ExportProcessedData
    \/ ExportToS3Compatible

SpecExport == InitExport /\ [][NextExport]_vars

\* Processed directories: a risk index and a habitat score per cell, the
\* last time step of the SST anomaly, the mean chlorophyll.
RiskIndexValues == {NaN, Rat(4, 5)}
ScoreValues == {NaN, Rat(1, 2)}
AnomalyValues == {NaN, One}
FieldsOver(S) == {Array(f) : f \in [Cells -> S]}
TimedOver(S) == {Array([t \in Times |-> IF t = NTimes THEN f ELSE Array([c \in Cells |-> Zero])]) :
                    f \in FieldsOver(S)}
TrainingFiles ==
    ("overfishing_risk_index.nc" :> FieldsOver(RiskIndexValues))
    @@ ("juvenile_habitat_score.nc" :> FieldsOver(ScoreValues))
    @@ ("sst_anomaly.nc" :> TimedOver(AnomalyValues))
    @@ ("chl_mean.nc" :> FieldsOver({One}))
ProcessedDirs == DictsOver(DOMAIN TrainingFiles, TrainingFiles)
Months == {6, 12}
\* The widths of the X handed to predict_risk / forecast.
FeatureCounts == {1, 3}
ModelKinds == {"risk", "catch"}

\* One model object is constructed; the processed directory holds the files
\* of an earlier pipeline run.
InitTrain ==
    /\ ObsIdle
    /\ SimConstructed
    /\ BasicConstructed
    /\ AdvConstructed
    /\ disk = [files |-> EmptyDict, unwritable |-> {}]
    /\ run = [basic |-> "idle", advanced |-> "idle"]
    /\ output_dir = EmptyDict
    /\ processed_dir \in ProcessedDirs
    /\ \E m \in ModelKinds :
          /\ models = (m :> ModelConstructed)
          /\ training_data = (m :> NotPrepared)
          /\ bundles = (m :> NotSaved)

NextTrain ==
    \/ \E m \in DOMAIN models, month \in Months : PrepareTrainingData(m, month)
    \/ \E m \in DOMAIN models, report_ok \in BOOLEAN : Train(m, report_ok)
    \/ \E m \in DOMAIN models : SaveModel(m)
    \/ \E m \in DOMAIN models, cols \in FeatureCounts : Predict(m, cols)
    \/ \E file \in DOMAIN TrainingFiles : \E field \in TrainingFiles[file] :
          AddProcessedFile(file, field)

SpecTrain == InitTrain /\ [][NextTrain]_vars

\* Fishing records: a large group of low-effort records, then records at
\* five positions: two pairs of nearby positions and one far from the rest.
Background == {[x |-> 300, y |-> 300, hours |-> 1, rows |-> n] : n \in {191, 400}}
Positions ==
    <<[x |-> 0, y |-> 0, hours |-> 10], [x |-> 8, y |-> 0, hours |-> 12],
      [x |-> 100, y |-> 0, hours |-> 10], [x |-> 100, y |-> 6, hours |-> 14],
      [x |-> 50, y |-> 50, hours |-> 20]>>
RowCounts == {0, 1, 5}
FishingRows ==
    {<<b>> \o SelectSeq([i \in DOMAIN Positions |->
                  [x |-> Positions[i].x, y |-> Positions[i].y,
                   hours |-> Positions[i].hours, rows |-> n[i]]],
              LAMBDA g : g.rows > 0) :
        b \in Background, n \in [DOMAIN Positions -> RowCounts]}
FishingDatasets ==
    {[columns |-> cs, rows |-> r] : cs \in {{"fishing_hours"}, {"vessel"}}, r \in FishingRows}
MpaBoxes ==
    {[name |-> "West", x0 |-> -30, x1 |-> -1, y0 |-> -20, y1 |-> 20],
     [name |-> "Middle", x0 |-> 3, x1 |-> 30, y0 |-> -20, y1 |-> 20],
     [name |-> "East", x0 |-> 102, x1 |-> 130, y0 |-> 1, y1 |-> 20],
     [name |-> "Far", x0 |-> 500, x1 |-> 600, y0 |-> 500, y1 |-> 600]}
MpaTables ==
    {<<>>} \cup {<<a>> : a \in MpaBoxes}
        \cup {<<ab[1], ab[2]>> : ab \in {q \in MpaBoxes \X MpaBoxes : q[1] # q[2]}}

InitFish ==
    /\ ObsIdle
    /\ SimConstructed
    /\ BasicConstructed
    /\ PipeIdle
    /\ TrainIdle
    /\ processed = EmptyDict
    /\ \E f \in FishingDatasets :
          \/ data = [fishing |-> f]
          \/ \E m \in MpaTables : data = [fishing |-> f, mpa |-> m]

NextFish == DetectIllegalFishingPatterns

SpecFish == InitFish /\ [][NextFish]_vars

\* Currents: eastward at the earlier time steps, any of the eight compass
\* directions, still water or a missing value in each cell at the last.
Components == {<<-1, 1>>, Zero, One}
Vectors == {<<u, v>> : u \in Components, v \in Components} \cup {<<NaN, NaN>>}
CurrentsDatasets ==
    {[uo |-> Array([t \in Times |-> Array([c \in Cells |->
                 IF t = NTimes THEN f[c][1] ELSE One])]),
      vo |-> Array([t \in Times |-> Array([c \in Cells |->
                 IF t = NTimes THEN f[c][2] ELSE Zero])])] :
        f \in [Cells -> Vectors]}
    \cup {[uo |-> Array([t \in Times |-> Array([c \in Cells |-> One])])]}

InitCurrent ==
    /\ ObsIdle
    /\ SimConstructed
    /\ AdvConstructed
    /\ PipeIdle
    /\ TrainIdle
    /\ processed_data = EmptyDict
    /\ raw_data \in DictsOver({"currents"}, [currents |-> CurrentsDatasets])

NextCurrent == CalculateCurrentSpeed

SpecCurrent == InitCurrent /\ [][NextCurrent]_vars

\* Temperatures around the optimum and the two windows, constant in time or
\* warming by one degree per time step up to them; one chlorophyll field and
\* one speed field.
Temperatures ==
    {NaN, <<12, 1>>, <<13, 1>>, <<15, 1>>, <<18, 1>>, OptimalTemp,
     <<22, 1>>, <<24, 1>>, <<25, 1>>}
SteadyTemperatures ==
    {[months |-> [t \in Times |-> 1],
      values |-> Array([t \in Times |-> Array(f)])] : f \in [Cells -> Temperatures]}
WarmingTemperatures ==
    {[months |-> [t \in Times |-> 1],
      values |-> Array([t \in Times |-> Array([c \in Cells |->
                    Add(f[c], <<t - NTimes, 1>>)])])] : f \in [Cells -> Temperatures]}
GradedField == Array([c \in Cells |-> <<c, 2>>])
GradedSeries == Array([t \in Times |-> GradedField])

InitHabitat ==
    /\ ObsIdle
    /\ SimConstructed
    /\ PipeIdle
    /\ TrainIdle
    /\ processed = EmptyDict
    /\ \/ /\ data = EmptyDict
          /\ \E sst \in SteadyTemperatures :
                raw_data \in {Put(d, "sst", sst) :
                    d \in DictsOver({"chlorophyll"}, [chlorophyll |-> {[values |-> GradedSeries]}])}
          /\ processed_data \in DictsOver({"current_speed"}, [current_speed |-> {GradedSeries}])
       \/ /\ raw_data = EmptyDict
          /\ processed_data = EmptyDict
          /\ \E sst \in SteadyTemperatures \cup WarmingTemperatures :
                data \in {Put(Put(d, "chlorophyll", [values |-> GradedSeries]), "sst", sst) :
                    d \in DictsOver({"currents", "fao_stats"},
                              [currents |-> {"loaded"}, fao_stats |-> {"loaded"}])}

NextHabitat ==
    \/ IdentifyJuvenileHabitatZones
    \/ CalculateEbfmIndicators

SpecHabitat == InitHabitat /\ [][NextHabitat]_vars

(***************************************************************************)
(* SpecDepth: the advanced transforms over datasets with a depth           *)
(* dimension, in every order of two of the depth values.                   *)
(***************************************************************************)
DepthValues == {1, 5, 10, 50}
DepthCoords == {<<q[1], q[2]>> : q \in {r \in DepthValues \X DepthValues : r[1] # r[2]}}

\* The temperature of a level at the last time step: rising or falling
\* across the cells, inside the window of suitable temperatures.
LevelFields ==
    {Array([c \in Cells |-> <<18 + c, 1>>]), Array([c \in Cells |-> <<22 - c, 1>>])}
LevelSeries(f) ==
    Array([t \in Times |-> IF t = NTimes THEN f ELSE Array([c \in Cells |-> <<18, 1>>])])
DeepTemperatures ==
    {[months |-> [t \in Times |-> 1], depth |-> z,
      levels |-> <<LevelSeries(f), LevelSeries(g)>>] :
        z \in DepthCoords, f \in LevelFields, g \in LevelFields}
PlainTemperatures ==
    {[months |-> [t \in Times |-> 1], values |-> LevelSeries(f)] : f \in LevelFields}

\* Chlorophyll: rich at the first cells near the surface, at the last below.
FadingSeries == Array([t \in Times |-> Array([c \in Cells |-> <<NCells + 1 - c, 2>>])])
DeepChlorophyll ==
    {[depth |-> z, levels |-> IF z[1] < z[2] THEN <<FadingSeries, GradedSeries>>
                              ELSE <<GradedSeries, FadingSeries>>] : z \in DepthCoords}

InitDepth ==
    /\ ObsIdle
    /\ SimConstructed
    /\ BasicConstructed
    /\ PipeIdle
    /\ TrainIdle
    /\ processed = EmptyDict
    /\ data \in DictsOver({"sst", "chlorophyll", "currents"},
                  [sst |-> DeepTemperatures \cup PlainTemperatures,
                   chlorophyll |-> DeepChlorophyll \cup {[values |-> GradedSeries]},
                   currents |-> {"loaded"}])

NextDepth ==
    \/ CalculateEbfmIndicators
    \/ CalculateMultifactorRiskIndex

SpecDepth == InitDepth /\ [][NextDepth]_vars

(***************************************************************************)
(* SpecStages: the stages of the advanced processor and its export invoked *)
(* one at a time, in any order, on well-formed inputs.                     *)
(***************************************************************************)
InitStages ==
    /\ ObsIdle
    /\ SimConstructed
    /\ TrainIdle
    /\ BasicConstructed
    /\ PipeIdle
    /\ processed = EmptyDict
    /\ data \in WellFormedInputs

NextStages ==
    \/ \E found \in BOOLEAN : InvokeDetectIllegalFishing(found)
    \/ InvokeFisherLivelihoods
    \/ InvokeEbfmIndicators
    \/ InvokeMultifactorRiskIndex
    \/ \E computed \in BOOLEAN : InvokeLarvalConnectivity(computed)
    \/ \E sites \in BOOLEAN : InvokeOptimizeMpaNetwork(sites)
    \/ ExportToS3Compatible

SpecStages == InitStages /\ [][NextStages]_vars

(***************************************************************************)
(* Properties of the risk composers (SpecRisk).                            *)
(***************************************************************************)
InUnitInterval(q) == Leq(Zero, q) /\ Leq(q, One)

BasicRiskStored == Has(processed_data, "overfishing_risk_index")
AdvRiskStored == Has(processed, "overfishing_risk_index")

\* C1: whatever non-empty subset of factors is available and whatever the
\* factor fields hold, every defined (non-NaN) cell of the overfishing_risk_index
\* stored by the basic and by the advanced composer lies in [0, 1].
RiskIndexInUnitInterval ==
    /\ BasicRiskStored =>
         \A c \in DefinedCells(processed_data["overfishing_risk_index"]) :
             InUnitInterval(processed_data["overfishing_risk_index"][c])
    /\ AdvRiskStored =>
         \A c \in DefinedCells(processed["overfishing_risk_index"]) :
             InUnitInterval(processed["overfishing_risk_index"][c])

\* The basic composer has combined all three factors and some cell's index
\* lies strictly between 0 and 1.
RiskIndexInteriorCell ==
    /\ BasicRiskStored
    /\ DOMAIN BasicRiskComponents(processed_data) = {"sst", "productivity", "frontal"}
    /\ \E c \in Cells :
          /\ Less(Zero, processed_data["overfishing_risk_index"][c])
          /\ Less(processed_data["overfishing_risk_index"][c], One)

\* The cells at which every contributing normalized factor equals 1.
AllOnesCells(comps) ==
    {c \in Cells : \A k \in DOMAIN comps : Normalize(comps[k])[c] = One}

\* C2: the index is the weighted sum divided by the weights of the factors
\* present as fields, so a cell at which every contributing normalized factor
\* equals 1 has index exactly 1, with or without 'fishing' and 'mpa' loaded.
AllOnesCellHasRiskOne ==
    /\ BasicRiskStored =>
         \A c \in AllOnesCells(BasicRiskComponents(processed_data)) :
             processed_data["overfishing_risk_index"][c] = One
    /\ AdvRiskStored =>
         \A c \in AllOnesCells(AdvRiskComponents(data, processed)) :
             processed["overfishing_risk_index"][c] = One

\* What the normalization owes a field: defined cells go to [0, 1], the
\* minimum to 0 and the maximum to 1, and a constant field's cells to 0.
NormalizedRight(f) ==
    LET n == Normalize(f)
    IN  \A c \in DefinedCells(f) :
          /\ InUnitInterval(n[c])
          /\ IF Less(FieldMin(f), FieldMax(f))
             THEN /\ f[c] = FieldMin(f) => n[c] = Zero
                  /\ f[c] = FieldMax(f) => n[c] = One
             ELSE n[c] = Zero

ClassifiedByThresholds ==
    /\ BasicRiskStored =>
         \A c \in Cells :
            LET r == processed_data["overfishing_risk_index"][c]
                k == processed_data["overfishing_risk_class"][c]
            IN  /\ k = "low" <=> Less(r, LowThreshold)
                /\ k = "medium" <=> (Leq(LowThreshold, r) /\ Less(r, HighThreshold))
                /\ k = "high" <=> Leq(HighThreshold, r)
    /\ AdvRiskStored =>
         \A c \in Cells :
            LET r == processed["overfishing_risk_index"][c]
                k == processed["risk_classification"][c]
            IN  /\ k = 1 <=> Less(r, LowThreshold)
                /\ k = 2 <=> (Leq(LowThreshold, r) /\ Less(r, HighThreshold))
                /\ k = 3 <=> Leq(HighThreshold, r)

(***************************************************************************)
(* Properties of the anomaly transform (SpecAnom).                         *)
(***************************************************************************)
\* C5: where the standard deviation used to standardize the SST anomaly is
\* zero, the stored sst_standardized is zero, and neither sst_standardized
\* nor the risk index computed from it holds a NaN or an infinity at a cell
\* whose SST values are defined.
ZeroStdGivesZeroAnomaly ==
    /\ Has(processed_data, "sst_standardized") =>
         \A t \in Times, c \in Cells :
            /\ StdAt(raw_data["sst"], t, c) = Zero
                  => processed_data["sst_standardized"][t][c] = Zero
            /\ ~IsNaN(raw_data["sst"].values[t][c])
                  => IsFinite(processed_data["sst_standardized"][t][c])
    /\ (AdvRiskStored /\ Has(data, "sst")) =>
         \A c \in Cells :
            (\A t \in Times : ~IsNaN(data["sst"].values[t][c]))
                => IsFinite(processed["overfishing_risk_index"][c])

(***************************************************************************)
(* Properties of the MPA coverage statistic (SpecCov).                     *)
(***************************************************************************)
RECURSIVE SumInts(_, _)
SumInts(seq, i) == IF i > Len(seq) THEN 0 ELSE seq[i] + SumInts(seq, i + 1)

\* C9: calculate_mpa_coverage reports number_of_mpas as the record count,
\* total_mpa_area_km2 as the sum of the polygon areas, and coverage_percentage
\* as total / 2,500,000 * 100, so that 125,000 km2 gives exactly 5.
CoverageIsAreaShare ==
    Has(processed_data, "mpa_stats") =>
        LET stats == processed_data["mpa_stats"]
            areas == raw_data["mpa"].areas
        IN  /\ stats.number_of_mpas = Len(areas)
            /\ stats.total_mpa_area_km2 = Rat(SumInts(areas, 1), 100)
            /\ stats.coverage_percentage = Div(stats.total_mpa_area_km2, <<25000, 1>>)
            /\ stats.total_mpa_area_km2 = <<125000, 1>>
                  => stats.coverage_percentage = <<5, 1>>

\* The statistic has been computed for polygons totalling 125,000 km2.
CoverageOfFivePercent ==
    /\ Has(processed_data, "mpa_stats")
    /\ processed_data["mpa_stats"].total_mpa_area_km2 = <<125000, 1>>
    /\ processed_data["mpa_stats"].number_of_mpas > 1

StockMonotonicInExpansion ==
    \A a \in calls, b \in calls :
        (a.baseline = b.baseline /\ a.years = b.years /\ a.pct <= b.pct)
            => \A i \in 1..(a.years + 1) :
                   a.returned.stock_recovery[i] <= b.returned.stock_recovery[i]

\* Expansions of 10 and 50 percent have been simulated over the same years
\* and the larger one ends with the strictly larger stock.
StockComparedAcrossExpansions ==
    \E a \in calls, b \in calls :
        /\ a.pct = 10 /\ b.pct = 50 /\ a.years = b.years
        /\ a.returned.final_stock_level < b.returned.final_stock_level

\* K / (1 + ((K - s0) / s0) * e^(-r * 10)) for K = 1.5, s0 = 0.6 and
\* r = 0.07 * (pct / 10), to four decimals.
StockAfterTenYears ==
    [pct \in {0, 10, 20, 30, 50} |->
        CASE pct = 0 -> 6000 [] pct = 10 -> 8597 [] pct = 20 -> 10950
          [] pct = 30 -> 12672 [] pct = 50 -> 14350]

Within(a, b, tol) == AbsInt(a - b) <= tol

\* C8: stock_recovery follows the logistic curve with K = 1.5, s0 = 0.6 and
\* r = 0.07 * pct / 10: it is 0.6 at year 0 for every percentage, after ten
\* years it is the curve's value (for baseline 5, expansion 20, within 0.01 of
\* 1.095), and biodiversity_recovery is the same curve at rate 0.8 r, so that
\* its value at year 5 j is the stock's value at year 4 j.
StockFollowsLogisticCurve ==
    \A c \in calls :
        LET stock == c.returned.stock_recovery
            bio == c.returned.biodiversity_recovery
        IN  /\ stock[1] = 6000
            /\ bio[1] = 6000
            /\ c.returned.final_stock_level = stock[c.years + 1]
            /\ c.returned.final_biodiversity = bio[c.years + 1]
            /\ c.years = 10 => Within(stock[11], StockAfterTenYears[c.pct], 50)
            /\ (c.years = 10 /\ c.pct = 20 /\ c.baseline = <<5, 1>>)
                  => Within(c.returned.final_stock_level, 10950, 100)
            /\ \A i \in 1..(c.years + 1) :
                  /\ bio[i] <= stock[i]
                  /\ (i - 1) % 5 = 0 => bio[i] = stock[(4 * (i - 1)) \div 5 + 1]
                  /\ (c.pct > 0 /\ i > 1) => bio[i] > stock[1]

\* A 20 percent expansion from a 5 percent baseline has been simulated over
\* ten years.
TwentyPercentOverTenYears ==
    \E c \in calls :
        /\ c.pct = 20 /\ c.years = 10 /\ c.baseline = <<5, 1>>
        /\ c.returned.final_biodiversity < c.returned.final_stock_level

\* C10: scenarios holds one record per distinct percentage simulated, under
\* the key expansion_<pct>pct; a record's expansion_percentage is the one in
\* its key, its new_coverage is the baseline plus the percentage, and its four
\* arrays have length years + 1; after compare_scenarios([10, 20, 30, 50]) on
\* a fresh simulator the keys are exactly those of 10, 20, 30 and 50.
OneScenarioPerPercentage ==
    /\ Cardinality(DOMAIN scenarios) = Cardinality({c.pct : c \in calls})
    /\ \A c \in calls : ("expansion_" \o ToString(c.pct) \o "pct") \in DOMAIN scenarios
    /\ \A k \in DOMAIN scenarios :
          LET rec == scenarios[k]
          IN  /\ k = "expansion_" \o ToString(rec.expansion_percentage) \o "pct"
              /\ rec.new_coverage = Add(baseline_coverage, <<rec.expansion_percentage, 1>>)
              /\ \E c \in calls :
                    /\ c.pct = rec.expansion_percentage
                    /\ Len(rec.years) = c.years + 1
                    /\ Len(rec.stock_recovery) = c.years + 1
                    /\ Len(rec.biodiversity_recovery) = c.years + 1
                    /\ Len(rec.economic_benefit_usd) = c.years + 1
    /\ {c.pct : c \in calls} = {10, 20, 30, 50}
          => DOMAIN scenarios = {"expansion_10pct", "expansion_20pct",
                                 "expansion_30pct", "expansion_50pct"}

\* compare_scenarios has run on a fresh simulator and nothing else has been
\* simulated: four keys, one of them simulated first.
FourComparedScenarios ==
    /\ Cardinality(DOMAIN scenarios) = 4
    /\ {c.pct : c \in calls} = {10, 20, 30, 50}
    /\ \E c \in calls : c.fresh /\ c.pct = 10

(***************************************************************************)
(* Properties of the pipelines (SpecPipe, SpecExport).                     *)
(***************************************************************************)
\* The input datasets a derived output needs: a set of alternatives, each a
\* set of dataset keys.
BasicRequires ==
    [k \in {BasicOutputOrder[i] : i \in DOMAIN BasicOutputOrder} |->
        CASE k \in {"sst_anomaly", "sst_standardized", "sst_climatology",
                    "sst_gradient", "frontal_zones",
                    "juvenile_habitat_score", "juvenile_habitat_class"} -> {{"sst"}}
          [] k \in {"current_speed", "current_direction"} -> {{"currents"}}
          [] k \in {"chl_trend", "chl_mean", "productivity_class"} -> {{"chlorophyll"}}
          [] k = "fishing_summary" -> {{"fishing"}}
          [] k = "mpa_stats" -> {{"mpa"}}
          [] OTHER -> {{"sst"}, {"chlorophyll"}}]

AdvRequires ==
    [illegal_fishing_suspects |-> {{"fishing", "mpa"}},
     socioeconomic_scenarios |-> {{"fishing", "fao_stats"}},
     habitat_quality_index |-> {{"sst", "chlorophyll", "currents"}},
     ebfm_indicators |-> {{}},
     overfishing_risk_index |-> {{"sst"}},
     risk_classification |-> {{"sst"}},
     larval_connectivity |-> {{"currents", "sst"}},
     spawning_aggregation_zones |-> {{"currents", "sst"}},
     nursery_habitat_score |-> {{"currents", "sst", "chlorophyll"}},
     recommended_mpa_locations |-> {{"currents", "sst"}}]

OnlySupported(outputs, requires, present) ==
    \A k \in DOMAIN outputs :
        k \in DOMAIN requires /\ \E alt \in requires[k] : alt \subseteq present

\* C11: whichever input datasets are absent, run_full_pipeline of either
\* processor runs through the export without raising, and the processed
\* mapping holds only outputs whose required datasets are present.
MissingInputsNeverFatal ==
    /\ run.basic # "idle" =>
          /\ run.basic = "complete"
          /\ "processing_metadata.json" \in DOMAIN processed_dir
          /\ OnlySupported(processed_data, BasicRequires, DOMAIN raw_data)
    /\ (run.advanced # "idle" /\ \A k \in DOMAIN data : data[k] = "ok") =>
          /\ run.advanced = "complete"
          /\ "processing_metadata.json" \in DOMAIN output_dir
          /\ OnlySupported(processed, AdvRequires, DOMAIN data)

\* The advanced pipeline has completed with fishing data but without FAO
\* statistics and without currents, deriving a risk index from the SST.
PipelineRanWithMissingInputs ==
    /\ run.advanced = "complete"
    /\ IsOk(data, "fishing") /\ IsOk(data, "sst")
    /\ ~Has(data, "fao_stats") /\ ~Has(data, "currents")
    /\ Has(processed, "overfishing_risk_index")
    /\ ~Has(processed, "socioeconomic_scenarios")

\* C12: when a dataset loads but lacks an expected variable, coordinate or
\* column, the affected stage is skipped and run_full_pipeline continues to
\* the export: no exception leaves a stage.
MalformedInputsSkipStage ==
    /\ run.basic \in {"idle", "complete"}
    /\ run.advanced \in {"idle", "complete"}
    /\ run.advanced = "complete" => "processing_metadata.json" \in DOMAIN output_dir

\* C13: when one derived field cannot be written, the export still writes
\* every other field, the summary statistics and the metadata file.
ExportFailuresAreLocal ==
    /\ run.basic # "idle" =>
          \A i \in DOMAIN BasicExportFiles(processed_data) :
              BasicExportFiles(processed_data)[i] \notin disk.unwritable
                  => BasicExportFiles(processed_data)[i] \in DOMAIN processed_dir
    /\ run.advanced = "complete" =>
          \A k \in DOMAIN processed :
              (processed[k] \in {"field", "table"}
                 /\ AdvFileOf(k, processed[k]) \notin disk.unwritable)
                  => AdvFileOf(k, processed[k]) \in DOMAIN output_dir

(***************************************************************************)
(* Properties of the training scripts (SpecTrain).                         *)
(***************************************************************************)
\* C14: prepare_training_data of both models returns one row for every cell
\* whose features and target (risk index or habitat score) are all defined,
\* and no row for any other cell.
NullRowsDropped ==
    \A m \in DOMAIN training_data :
        training_data[m].kind = "data" =>
            {training_data[m].cells[r] : r \in DOMAIN training_data[m].cells}
                = Cells \ training_data[m].null_cells

\* C15: the bundle save_model writes names the features of the data the
\* persisted model and scaler were fitted on, and says trained only if they
\* were fitted.
BundleDescribesFittedModel ==
    \A m \in DOMAIN bundles :
        bundles[m].saved =>
            /\ bundles[m].trained => bundles[m].fitted
            /\ bundles[m].fitted => bundles[m].feature_names = bundles[m].fitted_features

(***************************************************************************)
(* Properties of the illegal-fishing detection (SpecFish).                 *)
(***************************************************************************)
\* The high-effort cells the clustering sees, and their labels.
ClusteredCells == HighEffortCells(data["fishing"].rows)
ClusterLabels == Labels(ClusteredCells)
SuspectsStored == Has(processed, "illegal_fishing_suspects")

Dist2(a, b) == (a.x - b.x) * (a.x - b.x) + (a.y - b.y) * (a.y - b.y)
\* At least five records, pairwise within 0.1 degree.
DenseGroup(pts, G) ==
    /\ RowsOf(pts, G) >= 5
    /\ \A i \in G, j \in G : Dist2(pts[i], pts[j]) <= 100
\* Every sample of G farther than 0.1 degree from every sample outside G.
Apart(pts, G) ==
    \A i \in G, j \in (DOMAIN pts) \ G : Dist2(pts[i], pts[j]) > 100
TwoGroupsAndIsolated(pts, G1, G2) ==
    /\ G1 \cap G2 = {}
    /\ DenseGroup(pts, G1) /\ Apart(pts, G1)
    /\ DenseGroup(pts, G2) /\ Apart(pts, G2)
    /\ \A i \in (DOMAIN pts) \ (G1 \cup G2) : pts[i].rows = 1 /\ Apart(pts, {i})

NearestMpaReported ==
    SuspectsStored =>
        \A pts \in {ClusteredCells} : \A labels \in {ClusterLabels} :
            LET recs == processed["illegal_fishing_suspects"]
                dist(id, mpa) ==
                    BoundaryDistance(
                        ClusterCentroid(pts, {i \in DOMAIN pts : labels[i] = id}), mpa)
                mpas == {data["mpa"][n] : n \in DOMAIN data["mpa"]}
                qualifying(id) == {mpa \in mpas : Less(dist(id, mpa), <<5, 1>>)}
            IN  /\ \A k \in DOMAIN recs, l \in DOMAIN recs :
                      recs[k].cluster_id = recs[l].cluster_id => k = l
                /\ \A k \in DOMAIN recs :
                      \E mpa \in qualifying(recs[k].cluster_id) :
                          /\ mpa.name = recs[k].near_mpa
                          /\ \A other \in qualifying(recs[k].cluster_id) :
                                Leq(dist(recs[k].cluster_id, mpa),
                                    dist(recs[k].cluster_id, other))
                          /\ recs[k].risk_score
                               = FMax(Zero, Sub(One, Mul(<<1, 5>>,
                                                         dist(recs[k].cluster_id, mpa))))
                          /\ Less(Zero, recs[k].risk_score) /\ Leq(recs[k].risk_score, One)
                /\ \A id \in {labels[i] : i \in DOMAIN pts} \ {-1} :
                      qualifying(id) # {} => \E k \in DOMAIN recs : recs[k].cluster_id = id

(***************************************************************************)
(* Properties of the current direction (SpecCurrent).                      *)
(***************************************************************************)
\* C19: the stored direction is in degrees clockwise from east within
\* [0, 360): 0 for an eastward current, 270 for a northward one, 90 for a
\* southward one; never 360 and never negative.
DirectionClockwiseFromEast ==
    Has(processed_data, "current_direction") =>
        \A t \in Times, c \in Cells :
            LET u == raw_data["currents"]["uo"][t][c]
                v == raw_data["currents"]["vo"][t][c]
                direction == processed_data["current_direction"][t][c]
            IN  /\ ~IsNaN(u) =>
                      Leq(Zero, direction) /\ Less(direction, <<360, 1>>)
                /\ (Less(Zero, u) /\ v = Zero) => direction = Zero
                /\ (u = Zero /\ Less(Zero, v)) => direction = <<270, 1>>
                /\ (u = Zero /\ Less(v, Zero)) => direction = <<90, 1>>

(***************************************************************************)
(* Properties of the temperature suitability (SpecHabitat).                *)
(***************************************************************************)
\* What the score s of a temperature t must satisfy on its own.
PeakAndSupport(t, s) ==
    /\ t = <<37, 2>> => s = One
    /\ (IsNaN(t) \/ Less(t, <<13, 1>>) \/ Less(<<24, 1>>, t)) => s = Zero
    /\ Leq(Zero, s) /\ Leq(s, One)
\* Of two temperatures on the same side of 18.5, the farther scores no
\* higher, and lower when the nearer scores above 0.
FallsAway(near, s_near, far, s_far) ==
    (\/ Leq(<<37, 2>>, near) /\ Less(near, far)
     \/ Leq(near, <<37, 2>>) /\ Less(far, near))
        => Leq(s_far, s_near) /\ (Less(Zero, s_near) => Less(s_far, s_near))
TriangularOver(t, s) ==
    /\ \A c \in Cells : PeakAndSupport(t[c], s[c])
    /\ \A c \in Cells, e \in Cells : FallsAway(t[c], s[c], t[e], s[e])

SurfaceData(d) ==
    [k \in DOMAIN d |-> IF k \in {"sst", "chlorophyll"} THEN NearestSurface(d[k]) ELSE d[k]]

\* A step that stores a new value under k.
Stored(p, q, k) == Has(q, k) /\ (Has(p, k) => p[k] # q[k])

\* C21: whenever a dataset carries a depth dimension, the risk index that
\* calculate_multifactor_risk_index stores and the habitat quality index that
\* calculate_ebfm_indicators stores are the ones computed from the depth
\* level nearest to 5 m of each dataset, for every order and value of the
\* depth coordinate.
SurfaceLevelNearestFiveMetres ==
    [][/\ Stored(processed, processed', "overfishing_risk_index") =>
            processed'["overfishing_risk_index"] =
                AdvRiskIndex(AdvRiskComponents(SurfaceData(data), processed),
                             AdvWeightKeys(data, processed))
       /\ Stored(processed, processed', "habitat_quality_index") =>
            processed'["habitat_quality_index"] = HabitatQuality(SurfaceData(data))]_vars

(***************************************************************************)
(* Properties of the order of the advanced stages (SpecPipe).              *)
(***************************************************************************)
\* C22: a completed run_full_pipeline of the advanced processor that produced
\* the connectivity field from SST and currents has composed its risk index
\* with the connectivity_disruption factor, and one that produced the habitat
\* quality index with the habitat_degradation factor.
ComposerRunsAfterTransforms ==
    run.advanced = "complete" =>
        /\ IsOk(data, "sst") /\ IsOk(data, "currents")
              /\ Has(processed, "larval_connectivity")
           => "connectivity_disruption" \in risk_components
        /\ IsOk(data, "sst") /\ IsOk(data, "chlorophyll") /\ IsOk(data, "currents")
              /\ Has(processed, "habitat_quality_index")
           => "habitat_degradation" \in risk_components

(***************************************************************************)
(* Properties of the stages' frame (SpecStages).                           *)
(***************************************************************************)
\* The attrs of the DataArray stored under k; a new DataArray has none.
AttrsOf(attrs, k) == IF Has(attrs, k) THEN attrs[k] ELSE {}

\* C23: no step of either processor changes the advanced processor's input
\* mapping, and a step that stores nothing new (an export) leaves the
\* attributes of every derived field as the stage that produced it left them.
FieldsNeverMutatedInPlace ==
    [][/\ data' = data
       /\ processed' = processed =>
             \A k \in DOMAIN processed :
                 AttrsOf(field_attrs', k) = AttrsOf(field_attrs, k)]_vars

(***************************************************************************)
(* Properties of prediction (SpecTrain).                                   *)
(***************************************************************************)
\* A step in which model m's predict_risk / forecast ended in a new way.
PredictedAnew(m) ==
    Has(predictions', m) /\ (Has(predictions, m) => predictions'[m] # predictions[m])

\* C24: a model that was never fitted is not trained; the trained flag only
\* goes from false to true, in a step that fits the model and touches neither
\* the prepared arrays, the feature names nor the saved bundle (a train that
\* returns); a prediction call on an untrained model ends in the ValueError,
\* and a returned prediction comes from a trained model.
PredictionRequiresTraining ==
    [][\A m \in DOMAIN models :
        /\ ~models[m].fitted => ~models[m].trained
        /\ models'[m].trained # models[m].trained =>
              /\ models'[m].trained /\ models'[m].fitted
              /\ models'[m].feature_names = models[m].feature_names
              /\ training_data' = training_data
              /\ bundles' = bundles
        /\ PredictedAnew(m) /\ ~models[m].trained => predictions'[m] = "raised ValueError"
        /\ PredictedAnew(m) /\ predictions'[m] = "returned" => models[m].trained]_vars

\* A model whose train raised after fitting, with data prepared and a bundle
\* saved, has refused to predict.
RefusedUntrainedModel ==
    \E m \in DOMAIN models :
        /\ Has(predictions, m)
        /\ ~models[m].trained /\ models[m].fitted
        /\ predictions[m] = "raised ValueError"
        /\ bundles[m].saved /\ training_data[m].kind = "data"

(***************************************************************************)
(* The high-risk tests outside the composer: the processing report and the *)
(* dashboard's key metrics.                                                *)
(***************************************************************************)
\* (risk > 0.6).sum() / risk.size * 100
HighRiskPct(risk) ==
    Rat(100 * Cardinality({c \in DOMAIN risk : Less(Rat(3, 5), risk[c])}), Len(risk))

\* The sections generate_processing_report writes: the dataset keys, the
\* output keys, the risk assessment and the MPA lines.
ReportText(raw, pd) ==
    [datasets |-> DOMAIN raw,
     outputs |-> DOMAIN pd,
     risk |-> IF Has(pd, "overfishing_risk_index")
              THEN LET risk == pd["overfishing_risk_index"]
                   IN  <<[mean |-> MeanOf(risk), high_risk_areas |-> HighRiskPct(risk)]>>
              ELSE <<>>,
     mpa |-> IF Has(pd, "mpa_stats") THEN <<pd["mpa_stats"]>> ELSE <<>>]

\* MedGuardProcessor.generate_processing_report: the file is written outside
\* any try block.
GenerateProcessingReport ==
    /\ ReportFile \notin disk.unwritable
    /\ processed_dir' = Put(processed_dir, ReportFile, ReportText(raw_data, processed_data))
    /\ UNCHANGED <<disk, run, output_dir, basicVars, advVars, simVars, trainVars, obsVars>>

\* "high" if risk_mean > 0.6 else "medium" if risk_mean > 0.3 else "low"
DashboardRiskClass(risk_mean) ==
    IF Less(Rat(3, 5), risk_mean) THEN "high"
    ELSE IF Less(Rat(3, 10), risk_mean) THEN "medium" ELSE "low"

\* The four metrics of render_key_metrics over the datasets the dashboard
\* loaded from the processed directory.
KeyMetrics(dir, summary) ==
    [risk |-> IF Has(dir, "overfishing_risk_index.nc")
              THEN LET risk_mean == MeanOf(dir["overfishing_risk_index.nc"])
                   IN  <<[risk_mean |-> risk_mean,
                          risk_class |-> DashboardRiskClass(risk_mean),
                          high_risk_pct |-> HighRiskPct(dir["overfishing_risk_index.nc"])]>>
              ELSE <<>>,
     mpa_coverage |-> IF summary.kind = "absent" THEN "~5%" ELSE "5.2%",
     habitat |-> IF Has(dir, "juvenile_habitat_score.nc")
                 THEN <<MeanOf(dir["juvenile_habitat_score.nc"])>>
                 ELSE <<>>]

\* MedGuardDashboard(): load_processed_data, then run's render_key_metrics.
RenderKeyMetrics ==
    /\ dashboard' = Put(dashboard, "key_metrics", KeyMetrics(processed_dir, summary_file))
    /\ UNCHANGED <<basicVars, advVars, simVars, pipeVars, trainVars, stageVars, predictions,
                   models_dir>>

(***************************************************************************)
(* SpecHigh: the basic composer's index is exported, then read by the      *)
(* classifier's data preparation, the processing report and the dashboard. *)
(***************************************************************************)
HighFactorStates ==
    DictsOver({"sst_standardized", "chl_trend", "frontal_zones"},
              [sst_standardized |-> {Array([t \in Times |-> f]) :
                                        f \in [Cells -> {<<-2, 1>>, One}]},
               chl_trend |-> [Cells -> {Zero, <<-1, 1>>}],
               frontal_zones |-> [Cells -> BOOLEAN]])

\* The files export_processed_data writes for the outputs the classifier reads.
ExportedFiles ==
    [overfishing_risk_index |-> "overfishing_risk_index.nc",
     sst_standardized |-> "sst_standardized.nc",
     chl_trend |-> "chl_trend.nc"]

InitHigh ==
    /\ ObsIdle
    /\ SimConstructed
    /\ PipeIdle
    /\ AdvConstructed
    /\ raw_data = EmptyDict
    /\ processed_data \in HighFactorStates
    /\ models = ("risk" :> ModelConstructed)
    /\ training_data = ("risk" :> NotPrepared)
    /\ bundles = ("risk" :> NotSaved)

NextHigh ==
    \/ CalculateOverfishingRiskIndex
    \/ \E k \in DOMAIN ExportedFiles :
          Has(processed_data, k) /\ AddProcessedFile(ExportedFiles[k], processed_data[k])
    \/ \E month \in Months : PrepareTrainingData("risk", month)
    \/ GenerateProcessingReport
    \/ RenderKeyMetrics

SpecHigh == InitHigh /\ [][NextHigh]_vars

\* The composer's index has been exported unchanged, and every value is in [0, 1].
RiskExported ==
    /\ Has(processed_data, "overfishing_risk_index")
    /\ Has(processed_dir, "overfishing_risk_index.nc")
    /\ processed_dir["overfishing_risk_index.nc"] = processed_data["overfishing_risk_index"]
    /\ \A c \in Cells : InUnitInterval(processed_data["overfishing_risk_index"][c])

\* The percentage of cells the composer classed 'high'.
ComposerHighPct ==
    Rat(100 * Cardinality({c \in Cells :
                              processed_data["overfishing_risk_class"][c] = "high"}),
        NCells)

\* C25: the notion of a high-risk cell is the same in every component: for
\* an exported index with values in [0, 1], the cells the composer classed
\* 'high' are the cells the classifier labels 1, their share is the
\* high-risk percentage of the report written from that index and of the
\* dashboard's key metrics, and the dashboard's low/medium/high label of the
\* mean is the composer's class of that value.
HighRiskNotionAgrees ==
    RiskExported =>
        /\ training_data["risk"].kind = "data" =>
              \A r \in DOMAIN training_data["risk"].y :
                  training_data["risk"].y[r] =
                      (processed_data["overfishing_risk_class"]
                           [training_data["risk"].cells[r]] = "high")
        /\ Has(processed_dir, ReportFile) =>
              \A i \in DOMAIN processed_dir[ReportFile].risk :
                  processed_dir[ReportFile].risk[i].high_risk_areas = ComposerHighPct
        /\ Has(dashboard, "key_metrics") =>
              \A i \in DOMAIN dashboard["key_metrics"].risk :
                  LET m == dashboard["key_metrics"].risk[i]
                  IN  /\ m.high_risk_pct = ComposerHighPct
                      /\ m.risk_class = BasicRiskClass(m.risk_mean)

\* The cells counted in the low, medium and high area percentages both
\* composers print: risk < 0.3, 0.3 <= risk < 0.6, risk >= 0.6.
AreaCells(risk) ==
    [low |-> {c \in DOMAIN risk : Less(risk[c], LowThreshold)},
     medium |-> {c \in DOMAIN risk : Leq(LowThreshold, risk[c]) /\ Less(risk[c], HighThreshold)},
     high |-> {c \in DOMAIN risk : Leq(HighThreshold, risk[c])}]

\* C26: a cell whose risk index is undefined (NaN) is never assigned the
\* class high ('high' by the basic composer, 3 by the advanced one), and is
\* counted in none of the low, medium and high area percentages.
UndefinedCellNeverHigh ==
    /\ BasicRiskStored =>
         \A c \in Cells :
            IsNaN(processed_data["overfishing_risk_index"][c]) =>
               /\ processed_data["overfishing_risk_class"][c] # "high"
               /\ \A k \in {"low", "medium", "high"} :
                     c \notin AreaCells(processed_data["overfishing_risk_index"])[k]
    /\ AdvRiskStored =>
         \A c \in Cells :
            IsNaN(processed["overfishing_risk_index"][c]) =>
               /\ processed["risk_classification"][c] # 3
               /\ \A k \in {"low", "medium", "high"} :
                     c \notin AreaCells(processed["overfishing_risk_index"])[k]

(***************************************************************************)
(* train_all_models and the dashboard's MPA simulation tab.                *)
(***************************************************************************)
ModelFiles == [risk |-> "overfishing_risk_model.pkl", catch |-> "juvenile_catch_model.pkl"]

\* How one model's step of train_all_models ends: prepare_training_data
\* raises, or returns (None, None) and the step is skipped, or train raises
\* (the split, or the risk model's classification report), or the model is
\* trained and saved.
ModelStep(prepared, m, report_ok) ==
    IF prepared.outcome = "raised" THEN "raised"
    ELSE IF prepared.data.kind = "none" THEN "skipped"
    ELSE IF Len(prepared.data.X) < MinRows THEN "raised"
    ELSE IF m = "risk" /\ ~(report_ok /\ {prepared.data.y[r] : r \in DOMAIN prepared.data.y} = BOOLEAN)
         THEN "raised"
    ELSE "saved"

\* The bundle save_model writes for a model trained on `prepared`.
SavedBundle(prepared) ==
    [saved |-> TRUE, feature_names |-> prepared.feature_names, trained |-> TRUE,
     fitted |-> TRUE, fitted_features |-> prepared.data.columns]

\* The summary dict written to training_summary.json; a score is <<"score">>
\* or None.
TrainingSummary(risk, juvenile, created) ==
    [risk_model_accuracy |-> IF risk = "saved" THEN <<"score">> ELSE None,
     juvenile_model_r2 |-> IF juvenile = "saved" THEN <<"score">> ELSE None,
     mpa_scenarios_created |-> created,
     models_saved |-> <<ModelFiles["risk"], ModelFiles["catch"], "mpa_scenarios.json">>]

\* train_all_models: the two model steps on fresh model objects, then a
\* fresh MPASimulator: load_baseline, compare_scenarios([10, 20, 30, 50]),
\* save_scenarios, and the training summary.  An exception in any step ends
\* the run there.
TrainAllModels(month, report_ok) ==
    LET risk_data == RiskPrepared(processed_dir)
        juvenile_data == CatchPrepared(processed_dir, month)
        risk == ModelStep(risk_data, "risk", report_ok)
        juvenile == IF risk = "raised" THEN "not reached"
                    ELSE ModelStep(juvenile_data, "catch", TRUE)
        baseline == LoadedBaseline(summary_file, None)
        completed == risk # "raised" /\ juvenile # "raised" /\ baseline # None
        simulated == SimulatedAll(baseline, <<EmptyDict, {}>>, ComparedPcts, 1)[1]
    IN  /\ bundles' = [bundles EXCEPT
              !["risk"] = IF risk = "saved" THEN SavedBundle(risk_data) ELSE @,
              !["catch"] = IF juvenile = "saved" THEN SavedBundle(juvenile_data) ELSE @]
        /\ models_dir' =
              IF completed
              THEN Put(Put(models_dir, "mpa_scenarios.json", simulated),
                       "training_summary.json",
                       TrainingSummary(risk, juvenile, Cardinality(DOMAIN simulated)))
              ELSE models_dir
        /\ UNCHANGED <<models, training_data, basicVars, advVars, simVars, pipeVars,
                       stageVars, predictions, dashboard>>

\* create_mpa_simulation over the scenarios load_models read from
\* models/mpa_scenarios.json.
MpaSimulation(dir, expansion_pct) ==
    [expansion_pct |-> expansion_pct,
     outcome |-> IF ~Has(dir, "mpa_scenarios.json") THEN "not available"
                 ELSE IF ~Has(dir["mpa_scenarios.json"], ScenarioKey(expansion_pct))
                      THEN "not found"
                 ELSE "figure"]

\* MedGuardDashboard(): load_models, then run's MPA tab for the slider value.
CreateMpaSimulation(expansion_pct) ==
    /\ dashboard' = Put(dashboard, "mpa_simulation", MpaSimulation(models_dir, expansion_pct))
    /\ UNCHANGED <<basicVars, advVars, simVars, pipeVars, trainVars, stageVars, predictions,
                   models_dir>>

(***************************************************************************)
(* SpecModels: train_all_models over a processed directory and a summary   *)
(* file, and a simulator used directly.                                    *)
(***************************************************************************)
ModelInputFiles ==
    ("overfishing_risk_index.nc" :>
        {Array([c \in Cells |-> IF c = 1 THEN Rat(4, 5) ELSE Rat(1, 5)])})
    @@ ("juvenile_habitat_score.nc" :> FieldsOver({Rat(1, 2)}))
    @@ ("chl_mean.nc" :> FieldsOver({One}))

InitModels ==
    /\ ObsIdle
    /\ BasicConstructed
    /\ AdvConstructed
    /\ TrainIdle
    /\ disk = [files |-> EmptyDict, unwritable |-> {}]
    /\ run = [basic |-> "idle", advanced |-> "idle"]
    /\ output_dir = EmptyDict
    /\ processed_dir \in DictsOver(DOMAIN ModelInputFiles, ModelInputFiles)
    /\ summary_file \in SummaryFiles
    /\ baseline_coverage = None
    /\ scenarios = EmptyDict
    /\ calls = {}

NextModels ==
    \/ \E month \in Months, report_ok \in BOOLEAN : TrainAllModels(month, report_ok)
    \/ LoadBaseline
    \/ \E pct \in ExpansionPcts : SimulateExpansion(pct, DefaultYears)

SpecModels == InitModels /\ [][NextModels]_vars

(***************************************************************************)
(* SpecTab: the dashboard's MPA tab before and after train_all_models.     *)
(***************************************************************************)
\* The 'MPA Expansion (%)' slider: 0 to 50 in steps of 5.
SliderValues == {5 * i : i \in 0..10}

InitTab ==
    /\ InitModels
    /\ summary_file.kind \in {"absent", "stats"}

NextTab ==
    \/ \E month \in Months, report_ok \in BOOLEAN : TrainAllModels(month, report_ok)
    \/ \E pct \in SliderValues : CreateMpaSimulation(pct)

SpecTab == InitTab /\ [][NextTab]_vars

(***************************************************************************)
(* Properties of the dashboard's MPA tab (SpecTab).                        *)
(***************************************************************************)

\* C27: every expansion percentage the dashboard can request has a scenario:
\* once train_all_models has written mpa_scenarios.json, create_mpa_simulation
\* for any value of the 'MPA Expansion (%)' slider (0 to 50 in steps of 5)
\* finds its key and returns a figure, never the 'not found' outcome.
EverySliderValueHasScenario ==
    [][(/\ Has(models_dir, "mpa_scenarios.json")
        /\ dashboard' # dashboard
        /\ Has(dashboard', "mpa_simulation")
        /\ dashboard'["mpa_simulation"].expansion_pct \in SliderValues)
          => dashboard'["mpa_simulation"].outcome = "figure"]_vars

(***************************************************************************)
(* Properties of train_all_models and the simulator (SpecModels).          *)
(***************************************************************************)

\* What load_baseline, simulate_expansion and train_all_models have in
\* common whatever value load_baseline stores: a simulator with no baseline
\* adds no scenario, every scenario added was computed from the baseline
\* the simulator holds, and the scenarios train_all_models saves were
\* computed from the baseline load_baseline gives a fresh simulator.
ScenariosFromLoadedBaseline ==
    /\ baseline_coverage = None => scenarios' = scenarios /\ calls' = calls
    /\ \A k \in DOMAIN scenarios' :
          (~Has(scenarios, k) \/ scenarios'[k] # scenarios[k]) =>
              /\ baseline_coverage # None
              /\ scenarios'[k].new_coverage =
                    Add(baseline_coverage, <<scenarios'[k].expansion_percentage, 1>>)
    /\ (models_dir' # models_dir /\ Has(models_dir', "mpa_scenarios.json")) =>
          /\ LoadedBaseline(summary_file, None) # None
          /\ \A k \in DOMAIN models_dir'["mpa_scenarios.json"] :
                LET scenario == models_dir'["mpa_scenarios.json"][k]
                IN  scenario.new_coverage =
                       Add(LoadedBaseline(summary_file, None),
                           <<scenario.expansion_percentage, 1>>)

SummaryListsOnlyWritten ==
    Has(models_dir, "training_summary.json") =>
        LET summary == models_dir["training_summary.json"]
            listed == {summary.models_saved[i] : i \in DOMAIN summary.models_saved}
        IN  /\ summary.risk_model_accuracy = None => ModelFiles["risk"] \notin listed
            /\ summary.juvenile_model_r2 = None => ModelFiles["catch"] \notin listed
            /\ \A m \in DOMAIN ModelFiles : ModelFiles[m] \in listed => bundles[m].saved
            /\ "mpa_scenarios.json" \in listed => Has(models_dir, "mpa_scenarios.json")

(***************************************************************************)
(* Properties of the stage invocations (SpecStages).                       *)
(***************************************************************************)
InnovationTags ==
    {"illegal_fishing_detection", "socioeconomic_impact_modeling",
     "ecosystem_based_indicators", "larval_connectivity_modeling",
     "dynamic_mpa_optimization"}

\* C30: after any sequence of stage invocations, recommended_mpa_locations is
\* in processed only if larval_connectivity is; optimize_mpa_network invoked
\* while larval_connectivity is absent leaves processed and
\* innovations_applied as they were; and one invocation appends at most one
\* tag to innovations_applied.
MpaSitesNeedConnectivity ==
    /\ [](/\ Has(processed, "recommended_mpa_locations") =>
               Has(processed, "larval_connectivity")
          /\ ~Has(processed, "larval_connectivity") =>
               \A sites \in BOOLEAN :
                  LET st == OptimizeMpaStage(data, StageEntry(processed), sites)
                  IN  /\ st.processed = processed
                      /\ st.applied = innovations_applied)
    /\ [][\/ innovations_applied' = innovations_applied
          \/ \E tag \in InnovationTags :
                innovations_applied' = Append(innovations_applied, tag)]_vars

\* Reached: connectivity was computed, then the network optimised, each
\* stage leaving its one tag.
MpaSitesAfterConnectivity ==
    /\ Has(processed, "larval_connectivity")
    /\ Has(processed, "recommended_mpa_locations")
    /\ innovations_applied = <<"larval_connectivity_modeling", "dynamic_mpa_optimization">>

====
